---------------------------- MODULE Spec2Model ----------------------------
(***************************************************************************)
(* A model of worldiety/ioutil: the ByteOrder conversions, the sticky-     *)
(* error stream Encoder and Decoder, and the (typed) little endian buffer. *)
(*                                                                         *)
(* Machine integers.  TLC's own integers are 32 bit wide, the program's    *)
(* are up to 64 bit wide, so every Go integer is modelled by its 64-bit    *)
(* two's complement pattern, written as the tuple of its 8 bytes, least    *)
(* significant byte first: v[k+1] is byte(v >> 8k).  A value of a signed   *)
(* type narrower than 64 bit is kept sign-extended, one of an unsigned     *)
(* type zero-extended, which is what Go's conversions to int64/uint64      *)
(* produce.                                                                *)
(***************************************************************************)
EXTENDS Integers, Sequences, FiniteSets, TLC

VARIABLES
    boIn,        \* ByteOrder: the (width, order, value) under conversion
    boBuf,       \* ByteOrder: the caller's byte buffer tmp
    boOut,       \* ByteOrder: what UintW(tmp) returned, or None
    boPc,        \* ByteOrder: "start" | "made" | "put" | "got"
    eBuf10,      \* Encoder.buf10: the 10 byte scratch buffer
    eFirstErr,   \* Encoder.firstErr
    eFailOnError,\* Encoder.failOnError
    eOp,         \* the Encoder method called last
    eCalls,      \* the calls of out.Write that method made, in order
    eRet,        \* what that method returned: count and error
    dBuf8,       \* Decoder.buf8: the 8 byte scratch buffer
    dFirstErr,   \* Decoder.firstErr
    dFailOnError,\* Decoder.failOnError
    dSrc,        \* the bytes the source of the Decoder still holds
    dOp,         \* the Decoder method called last
    dReads,      \* the calls of in.Read that method made, in order
    dRet,        \* what that method returned
    tBytes,      \* LittleEndianBuffer.Bytes of the typed buffer
    tPos,        \* LittleEndianBuffer.Pos
    tIn,         \* the call made on the buffer: its arguments and Pos around it
    tOut,        \* what the last read returned and whether the call panicked
    tPc,         \* typed buffer: "start" | "written" | "rewound" | "read"
    cIn,         \* round trip, scenario: the writes made and the values read
    cPc,         \* round trip, scenario: the position in the sequence of calls
    hCount,      \* HashReader.count
    hHasher,     \* the bytes written to HashReader.hasher since its last Reset
    hReader,     \* the bytes HashReader.reader still holds
    hReturned,   \* history: the sum of the n that Read returned since the last Reset
    hRet,        \* the HashReader method called last and what it returned
    bBuf,        \* ByteSeeker.buf
    bCap,        \* cap(ByteSeeker.buf)
    bPos,        \* ByteSeeker.pos
    bRet,        \* the ByteSeeker method called last and what it returned
    gIn,         \* two callers of WriteUint16: their values, the order, one Encoder or two
    gBuf10,      \* the buf10 of the Encoder each caller uses (one array when shared)
    gPc,         \* the position of each caller inside WriteUint16
    gSent        \* the bytes the sink was handed in each caller's out.Write

boVars == <<boIn, boBuf, boOut, boPc>>
encVars == <<eBuf10, eFirstErr, eFailOnError, eOp, eCalls, eRet>>

decVars == <<dBuf8, dFirstErr, dFailOnError, dSrc, dOp, dReads, dRet>>

tbVars == <<tBytes, tPos, tIn, tOut, tPc>>
codecVars == <<cIn, cPc>>
hrVars == <<hCount, hHasher, hReader, hReturned, hRet>>
bsVars == <<bBuf, bCap, bPos, bRet>>
\* the readers over a stream, which no other component touches
goVars == <<gIn, gBuf10, gPc, gSent>>
restVars == <<hrVars, bsVars, goVars>>

\* the variables of the other components, for each component
notBO == <<encVars, decVars, tbVars, codecVars, restVars>>
notEnc == <<boVars, decVars, tbVars, codecVars, restVars>>
notDec == <<boVars, encVars, tbVars, codecVars, restVars>>
notTB == <<boVars, encVars, decVars, codecVars, restVars>>

vars == <<boVars, encVars, decVars, tbVars, codecVars, hrVars, bsVars, goVars>>

None == "none"

Byte == 0..255

-----------------------------------------------------------------------------
(* 64-bit patterns *)

\* uint64(b[0]) | uint64(b[1])<<8 | ... for the bytes bs, least significant first
Pack(bs) == [i \in 1..8 |-> IF i <= Len(bs) THEN bs[i] ELSE 0]

Zero == Pack(<< >>)
One == Pack(<<1>>)

\* byte(v >> (8*k))
ByteAt(v, k) == v[k + 1]

\* the conversion to an unsigned type of n bytes: uint8(v), uint16(v), uint32(v)
Trunc(v, n) == [i \in 1..8 |-> IF i <= n THEN v[i] ELSE 0]

\* the conversion of an n-byte pattern to the signed type of n bytes, widened
\* to int64: int8(x), int16(x), int32(x), int64(x)
SignExt(v, n) == [i \in 1..8 |-> IF i <= n THEN v[i]
                                  ELSE IF v[n] >= 128 THEN 255 ELSE 0]

\* a small natural number as a pattern
U64(n) == [i \in 1..8 |-> IF i <= 4 THEN (n \div (256 ^ (i - 1))) % 256 ELSE 0]


\* the bytes lo .. lo+2 of a pattern as a number
Limb(a, lo) == a[lo] + 256 * a[lo + 1] + (IF lo < 7 THEN 65536 * a[lo + 2] ELSE 0)

\* the pattern of three limbs of 24, 24 and 16 bit
FromLimbs(l1, l2, l3) ==
    <<l1 % 256, (l1 \div 256) % 256, l1 \div 65536,
      l2 % 256, (l2 \div 256) % 256, l2 \div 65536,
      l3 % 256, l3 \div 256>>

\* the sums s1, s2, s3 of the limbs with the carries taken over
Carry(s1, s2, s3) ==
    FromLimbs(s1 % 16777216,
              (s2 + (s1 \div 16777216)) % 16777216,
              (s3 + ((s2 + (s1 \div 16777216)) \div 16777216)) % 65536)

\* a + b + c for a carry c of 0 or 1, in 64 bit arithmetic
AddC(a, b, c) ==
    Carry(Limb(a, 1) + Limb(b, 1) + c, Limb(a, 4) + Limb(b, 4), Limb(a, 7) + Limb(b, 7))

\* a + b, ^a, -a and a - b in 64 bit arithmetic
Add(a, b) == AddC(a, b, 0)
Not(a) == [i \in 1..8 |-> 255 - a[i]]
Neg(a) == AddC(Zero, Not(a), 1)
Sub(a, b) == AddC(a, Not(b), 1)

\* 1 << n as an untyped constant cut to 64 bit (n = 64 gives 0)
Shl1(n) == [i \in 1..8 |-> IF i = (n \div 8) + 1 THEN 2 ^ (n % 8) ELSE 0]

\* unsigned comparison
ULt(a, b) ==
    IF Limb(a, 7) # Limb(b, 7) THEN Limb(a, 7) < Limb(b, 7)
    ELSE IF Limb(a, 4) # Limb(b, 4) THEN Limb(a, 4) < Limb(b, 4)
    ELSE Limb(a, 1) < Limb(b, 1)
ULe(a, b) == ~ULt(b, a)

\* signed comparison: the sign bit is the top bit of the top byte
IsNeg(a) == a[8] >= 128
SLt(a, b) == IF IsNeg(a) # IsNeg(b) THEN IsNeg(a) ELSE ULt(a, b)

-----------------------------------------------------------------------------
(* The integer limits *)

\* MaxInt8 .. MaxInt64: 1<<(8w-1) - 1 for the width of w bytes
MaxIntW(w) == Sub(Shl1(8 * w - 1), One)
\* MinInt8 .. MinInt64: -1 << (8w-1)
MinIntW(w) == Neg(Shl1(8 * w - 1))
\* MaxUint8 .. MaxUint64: 1<<(8w) - 1
MaxUintW(w) == Sub(Shl1(8 * w), One)

-----------------------------------------------------------------------------
(* ByteOrder *)

LittleEndian == "LittleEndian"
BigEndian == "BigEndian"
ByteOrders == {LittleEndian, BigEndian}

\* littleEndian.Uint16 .. Uint64 on the first w bytes of b
leUint(w, b) ==
    CASE w = 2 -> Pack(<<b[1], b[2]>>)
      [] w = 3 -> Pack(<<b[1], b[2], b[3]>>)
      [] w = 4 -> Pack(<<b[1], b[2], b[3], b[4]>>)
      [] w = 5 -> Pack(<<b[1], b[2], b[3], b[4], b[5]>>)
      [] w = 6 -> Pack(<<b[1], b[2], b[3], b[4], b[5], b[6]>>)
      [] w = 7 -> Pack(<<b[1], b[2], b[3], b[4], b[5], b[6], b[7]>>)
      [] w = 8 -> Pack(<<b[1], b[2], b[3], b[4], b[5], b[6], b[7], b[8]>>)

\* littleEndian.PutUint16 .. PutUint64: the first w bytes of b after the call
lePutUint(w, v) ==
    CASE w = 2 -> <<ByteAt(v, 0), ByteAt(v, 1)>>
      [] w = 3 -> <<ByteAt(v, 0), ByteAt(v, 1), ByteAt(v, 2)>>
      [] w = 4 -> <<ByteAt(v, 0), ByteAt(v, 1), ByteAt(v, 2), ByteAt(v, 3)>>
      [] w = 5 -> <<ByteAt(v, 0), ByteAt(v, 1), ByteAt(v, 2), ByteAt(v, 3),
                    ByteAt(v, 4)>>
      [] w = 6 -> <<ByteAt(v, 0), ByteAt(v, 1), ByteAt(v, 2), ByteAt(v, 3),
                    ByteAt(v, 4), ByteAt(v, 5)>>
      [] w = 7 -> <<ByteAt(v, 0), ByteAt(v, 1), ByteAt(v, 2), ByteAt(v, 3),
                    ByteAt(v, 4), ByteAt(v, 5), ByteAt(v, 6)>>
      [] w = 8 -> <<ByteAt(v, 0), ByteAt(v, 1), ByteAt(v, 2), ByteAt(v, 3),
                    ByteAt(v, 4), ByteAt(v, 5), ByteAt(v, 6), ByteAt(v, 7)>>

\* bigEndian.Uint16 .. Uint64 on the first w bytes of b
beUint(w, b) ==
    CASE w = 2 -> Pack(<<b[2], b[1]>>)
      [] w = 3 -> Pack(<<b[3], b[2], b[1]>>)
      [] w = 4 -> Pack(<<b[4], b[3], b[2], b[1]>>)
      [] w = 5 -> Pack(<<b[5], b[4], b[3], b[2], b[1]>>)
      [] w = 6 -> Pack(<<b[6], b[5], b[4], b[3], b[2], b[1]>>)
      [] w = 7 -> Pack(<<b[7], b[6], b[5], b[4], b[3], b[2], b[1]>>)
      [] w = 8 -> Pack(<<b[8], b[7], b[6], b[5], b[4], b[3], b[2], b[1]>>)

\* bigEndian.PutUint40 with the two low bytes stored in the wrong order
bePutUintSwapped(w, v) ==
    CASE w = 2 -> <<ByteAt(v, 1), ByteAt(v, 0)>>
      [] w = 3 -> <<ByteAt(v, 2), ByteAt(v, 1), ByteAt(v, 0)>>
      [] w = 4 -> <<ByteAt(v, 3), ByteAt(v, 2), ByteAt(v, 1), ByteAt(v, 0)>>
      [] w = 5 -> <<ByteAt(v, 4), ByteAt(v, 3), ByteAt(v, 2), ByteAt(v, 0),
                    ByteAt(v, 1)>>
      [] w = 6 -> <<ByteAt(v, 5), ByteAt(v, 4), ByteAt(v, 3), ByteAt(v, 2),
                    ByteAt(v, 1), ByteAt(v, 0)>>
      [] w = 7 -> <<ByteAt(v, 6), ByteAt(v, 5), ByteAt(v, 4), ByteAt(v, 3),
                    ByteAt(v, 2), ByteAt(v, 1), ByteAt(v, 0)>>
      [] w = 8 -> <<ByteAt(v, 7), ByteAt(v, 6), ByteAt(v, 5), ByteAt(v, 4),
                    ByteAt(v, 3), ByteAt(v, 2), ByteAt(v, 1), ByteAt(v, 0)>>

\* bigEndian.PutUint16 .. PutUint64: the first w bytes of b after the call
bePutUint(w, v) ==
    CASE w = 2 -> <<ByteAt(v, 1), ByteAt(v, 0)>>
      [] w = 3 -> <<ByteAt(v, 2), ByteAt(v, 1), ByteAt(v, 0)>>
      [] w = 4 -> <<ByteAt(v, 3), ByteAt(v, 2), ByteAt(v, 1), ByteAt(v, 0)>>
      [] w = 5 -> <<ByteAt(v, 4), ByteAt(v, 3), ByteAt(v, 2), ByteAt(v, 1),
                    ByteAt(v, 0)>>
      [] w = 6 -> <<ByteAt(v, 5), ByteAt(v, 4), ByteAt(v, 3), ByteAt(v, 2),
                    ByteAt(v, 1), ByteAt(v, 0)>>
      [] w = 7 -> <<ByteAt(v, 6), ByteAt(v, 5), ByteAt(v, 4), ByteAt(v, 3),
                    ByteAt(v, 2), ByteAt(v, 1), ByteAt(v, 0)>>
      [] w = 8 -> <<ByteAt(v, 7), ByteAt(v, 6), ByteAt(v, 5), ByteAt(v, 4),
                    ByteAt(v, 3), ByteAt(v, 2), ByteAt(v, 1), ByteAt(v, 0)>>

\* a ByteOrder interface that reads little endian whatever the order is
OrderUintLittle(o, w, b) == leUint(w, b)

\* o.UintW(b) and o.PutUintW(b, v) through the ByteOrder interface
OrderUint(o, w, b) == IF o = LittleEndian THEN leUint(w, b) ELSE beUint(w, b)
OrderPutUint(o, w, v) ==
    IF o = LittleEndian THEN lePutUint(w, v) ELSE bePutUint(w, v)

\* the byte widths of the 16 .. 64 bit conversions
Widths == 2..8

-----------------------------------------------------------------------------
(* Sample values: the limits of every width and their neighbours *)

Limits ==
    UNION {{MaxIntW(w), MinIntW(w), MaxUintW(w)} : w \in 1..8}

Samples ==
    Limits \cup {Add(v, One) : v \in Limits} \cup {Sub(v, One) : v \in Limits}
        \cup {Zero, One, U64(42), Pack(<<1, 2, 3, 4, 5, 6, 7, 8>>),
              Pack(<<128, 129, 130, 131, 132, 133, 134, 135>>)}

\* v is a value of the unsigned type of w bytes
FitsUnsigned(v, w) == \A i \in 1..8 : i > w => v[i] = 0

-----------------------------------------------------------------------------
(* ByteOrder round trips (byteorder_test.go): tmp := make([]byte, w);        *)
(* bo.PutUintW(tmp, v); v2 := bo.UintW(tmp)                                 *)

BOInit ==
    /\ boIn = None
    /\ boBuf = << >>
    /\ boOut = None
    /\ boPc = "start"

\* tmp := make([]byte, w), and the choice of the order and of the value
BOMake ==
    /\ boPc = "start"
    /\ \E w \in Widths, o \in ByteOrders, v \in Samples :
          /\ FitsUnsigned(v, w)
          /\ boIn' = [w |-> w, o |-> o, v |-> v]
          /\ boBuf' = [i \in 1..w |-> 0]
    /\ boPc' = "made"
    /\ UNCHANGED boOut
    /\ UNCHANGED notBO

\* bo.PutUintW(tmp, v)
BOPut ==
    /\ boPc = "made"
    /\ boBuf' = OrderPutUint(boIn.o, boIn.w, boIn.v)
    /\ boPc' = "put"
    /\ UNCHANGED <<boIn, boOut>>
    /\ UNCHANGED notBO

\* v2 := bo.UintW(tmp)
BOGet ==
    /\ boPc = "put"
    /\ boOut' = OrderUint(boIn.o, boIn.w, boBuf)
    /\ boPc' = "got"
    /\ UNCHANGED <<boIn, boBuf>>
    /\ UNCHANGED notBO

BONext == BOMake \/ BOPut \/ BOGet

-----------------------------------------------------------------------------
(* Byte slices and byte streams.  A []byte is the bytes h, then z zero     *)
(* bytes, then the bytes t, with t empty when z is 0; z is a 64-bit        *)
(* pattern, so that a slice of 1<<32 bytes is a value of the model.        *)

Norm(s) ==
    IF s.z = Zero THEN [h |-> s.h \o s.t, z |-> Zero, t |-> << >>] ELSE s

\* []byte{bs...}
Slice(bs) == [h |-> bs, z |-> Zero, t |-> << >>]
\* make([]byte, n)
Zeros(n) == [h |-> << >>, z |-> n, t |-> << >>]

\* len(s)
SLen(s) == Add(Add(U64(Len(s.h)), s.z), U64(Len(s.t)))

\* a pattern below 1<<16 as a number
Small(v) == v[1] + 256 * v[2]

\* append(a, b...), for slices whose runs of zeros are not apart
Concat(a, b) ==
    CASE a.z = Zero -> Norm([h |-> a.h \o b.h, z |-> b.z, t |-> b.t])
      [] a.z # Zero /\ b.z = Zero -> [a EXCEPT !.t = a.t \o b.h]
      [] a.z # Zero /\ b.z # Zero /\ a.t = << >> /\ b.h = << >> ->
            [h |-> a.h, z |-> Add(a.z, b.z), t |-> b.t]

\* s[:n] for n <= len(s)
SliceTo(s, n) ==
    LET cut(lh, lz) ==
            IF ULe(n, lh) THEN Slice(SubSeq(s.h, 1, Small(n)))
            ELSE IF ULe(n, lz) THEN [h |-> s.h, z |-> Sub(n, lh), t |-> << >>]
            ELSE [h |-> s.h, z |-> s.z, t |-> SubSeq(s.t, 1, Small(Sub(n, lz)))]
    IN  cut(U64(Len(s.h)), Add(U64(Len(s.h)), s.z))

\* s[n:] for n <= len(s)
SliceFrom(s, n) ==
    LET cut(lh, lz) ==
            IF ULe(n, lh) THEN Norm([s EXCEPT !.h = SubSeq(s.h, Small(n) + 1, Len(s.h))])
            ELSE IF ULe(n, lz) THEN Norm([h |-> << >>, z |-> Sub(lz, n), t |-> s.t])
            ELSE Slice(SubSeq(s.t, Small(Sub(n, lz)) + 1, Len(s.t)))
    IN  cut(U64(Len(s.h)), Add(U64(Len(s.h)), s.z))

\* the bytes of a slice of at most 10 bytes, one by one
Explicit(s) == s.h \o [i \in 1..Small(s.z) |-> 0] \o s.t


-----------------------------------------------------------------------------
(* Errors *)

Nil == [kind |-> "nil", val |-> Zero, max |-> Zero]
\* an error the sink or the source returns
IOErr(id) == [kind |-> id, val |-> Zero, max |-> Zero]
IOErrs == {IOErr("errA"), IOErr("errB")}
\* fmt.Errorf("writer buffer underrun")
Underrun == [kind |-> "writer buffer underrun", val |-> Zero, max |-> Zero]
\* IntegerOverflow{Val: val, Max: max}
IntegerOverflow(val, max) == [kind |-> "IntegerOverflow", val |-> val, max |-> max]

-----------------------------------------------------------------------------
(* IntSize *)

I8 == 1
I16 == 2
I24 == 3
I32 == 4
I40 == 5
I64 == 8
IVar == 0
IntSizes == {I8, I16, I24, I32, I40, I64, IVar}

-----------------------------------------------------------------------------
(* encoding/binary's varints, as the Encoder and the Decoder use them *)

\* x >> 7
Shr7(x) == [i \in 1..8 |-> (x[i] \div 128) + (IF i < 8 THEN (x[i + 1] % 128) * 2 ELSE 0)]

\* binary.PutUvarint(buf, x): the bytes it stores, buf[:n]
RECURSIVE PutUvarint(_)
PutUvarint(x) ==
    IF ULe(U64(128), x)
    THEN <<(x[1] % 128) + 128>> \o PutUvarint(Shr7(x))
    ELSE <<x[1]>>

\* PutVarint without the zigzag mapping
PutVarintPlain(x) == PutUvarint(x)

\* binary.PutVarint(buf, x): ux := uint64(x) << 1; if x < 0 { ux = ^ux }
PutVarint(x) ==
    LET ux == Add(x, x)
    IN  PutUvarint(IF IsNeg(x) THEN Not(ux) ELSE ux)

-----------------------------------------------------------------------------
(* The Encoder.  A method is an operator on the frame e of one call: the   *)
(* Encoder's fields buf10, firstErr and failOnError; calls, the calls of   *)
(* out.Write made so far; resp, what the sink is going to answer to the    *)
(* next calls; n and err, the values the innermost call returned.          *)

\* what the sink answers to a Write(p): all of p taken, one byte less than p
\* taken without an error, or nothing taken and an error
SinkResponses ==
    {[kind |-> "ok", err |-> Nil], [kind |-> "short", err |-> Nil]}
        \cup {[kind |-> "fail", err |-> x] : x \in IOErrs}

\* n, err := e.out.Write(p)
SinkWrite(e, p) ==
    LET r == Head(e.resp)
        taken(len) == CASE r.kind = "ok" -> len
                        [] r.kind = "short" -> IF len = Zero THEN Zero ELSE Sub(len, One)
                        [] r.kind = "fail" -> Zero
        answer(n) == [e EXCEPT !.calls = Append(@, [p |-> p, n |-> n, err |-> r.err]),
                               !.resp = Tail(@), !.n = n, !.err = r.err]
    IN  answer(taken(SLen(p)))

\* a quickFail that never short-circuits
E_quickFailNever(e) == FALSE

\* Encoder.quickFail
E_quickFail(e) == e.failOnError /\ e.firstErr # Nil

\* a noteErr that keeps the last error instead of the first
E_noteErrLast(e, err) ==
    IF err # Nil THEN [e EXCEPT !.firstErr = err] ELSE e

\* Encoder.noteErr: the frame after the call; it returns firstErr != nil
E_noteErr(e, err) ==
    IF err # Nil /\ e.firstErr = Nil THEN [e EXCEPT !.firstErr = err] ELSE e

\* a WriteSlice that does not ask quickFail
E_WriteSliceAlways(e, v) ==
    LET note(e1) == E_noteErr(e1, e1.err)
        check(e2, len) == IF e2.firstErr # Nil \/ e2.n # len
                          THEN E_noteErr(e2, Underrun)
                          ELSE e2
    IN  check(note(SinkWrite(e, v)), SLen(v))

\* Encoder.WriteSlice, Encoder.WriteBytes
E_WriteSlice(e, v) ==
    LET note(e1) == E_noteErr(e1, e1.err)
        check(e2, len) == IF e2.firstErr # Nil \/ e2.n # len
                          THEN E_noteErr(e2, Underrun)
                          ELSE e2
    IN  IF E_quickFail(e) THEN [e EXCEPT !.n = Zero]
        ELSE check(note(SinkWrite(e, v)), SLen(v))

\* Encoder.WriteByte
E_WriteByte(e, c) ==
    LET note(e1) == E_noteErr(e1, e1.err)
    IN  IF E_quickFail(e) THEN [e EXCEPT !.err = e.firstErr]
        ELSE note(SinkWrite([e EXCEPT !.buf10[1] = c], Slice(<<c>>)))

\* Encoder.Write
E_Write(e, p) ==
    LET note(e1) == E_noteErr(e1, e1.err)
    IN  IF E_quickFail(e) THEN [e EXCEPT !.n = Zero, !.err = e.firstErr]
        ELSE note(SinkWrite(e, p))

\* Encoder.WriteUint8, Encoder.WriteInt8 (v is uint8(v) already)
E_WriteUint8(e, v) == E_WriteByte(e, ByteAt(v, 0))

\* Encoder.WriteBool
E_WriteBool(e, v) == E_WriteUint8(e, IF v THEN One ELSE Zero)

\* Encoder.WriteUint16 .. WriteUint64, w the number of bytes:
\* tmp := e.buf10[:w]; o.PutUintW(tmp, v); e.WriteSlice(tmp)
E_WriteUint(e, w, o, v) ==
    LET write(tmp) == E_WriteSlice([e EXCEPT !.buf10 = tmp \o SubSeq(@, w + 1, 10)],
                                   Slice(tmp))
    IN  write(OrderPutUint(o, w, v))

\* Encoder.WriteInt16 .. WriteInt64: the conversion to the unsigned type of
\* the parameter (uint16 of an int16, uint32 of an int32 for 24 and 32 bit,
\* uint64 of an int64 from 40 bit on), then the unsigned write
E_WriteInt(e, w, o, v) ==
    E_WriteUint(e, w, o, IF w = 2 THEN Trunc(v, 2)
                         ELSE IF w \in {3, 4} THEN Trunc(v, 4)
                         ELSE v)

\* Encoder.WriteUvarint
E_WriteUvarint(e, v) ==
    LET write(bs) == E_WriteSlice([e EXCEPT !.buf10 = bs \o SubSeq(@, Len(bs) + 1, 10)],
                                  Slice(bs))
    IN  write(PutUvarint(v))

\* Encoder.WriteVarint
E_WriteVarint(e, v) ==
    LET write(bs) == E_WriteSlice([e EXCEPT !.buf10 = bs \o SubSeq(@, Len(bs) + 1, 10)],
                                  Slice(bs))
    IN  write(PutVarint(v))

\* Encoder.WriteFloat32, Encoder.WriteFloat64: a float is modelled by its
\* IEEE 754 bit pattern, math.Float32bits(v) and math.Float64bits(v)
E_WriteFloat32(e, o, bits) == E_WriteUint(e, 4, o, bits)
E_WriteFloat64(e, o, bits) == E_WriteUint(e, 8, o, bits)

\* a WriteComplex64 that writes real(v) only
E_WriteComplex64Real(e, o, re, im) == E_WriteFloat32(e, o, re)

\* Encoder.WriteComplex64, Encoder.WriteComplex128: real(v), then imag(v)
E_WriteComplex64(e, o, re, im) == E_WriteFloat32(E_WriteFloat32(e, o, re), o, im)
E_WriteComplex128(e, o, re, im) == E_WriteFloat64(E_WriteFloat64(e, o, re), o, im)

\* Encoder.WriteBlob; p is one of the declared IntSize values.  The switch
\* checks len(v) against the maximum of p - as an int for I8, I16 and I32,
\* as uint32(len(v)) for I24, as uint64(len(v)) for I40 - and returns after
\* noteErr, or writes the length; e.WriteSlice(v) follows the switch.
E_WriteBlob(e, o, p, v) ==
    LET over(len) == CASE p = I8 -> SLt(MaxUintW(1), len)
                       [] p = I16 -> SLt(MaxUintW(2), len)
                       [] p = I24 -> ULt(MaxUintW(3), Trunc(len, 4))
                       [] p = I32 -> SLt(MaxUintW(4), len)
                       [] p = I40 -> ULt(MaxUintW(5), len)
                       [] p \in {I64, IVar} -> FALSE
        prefix(len) == CASE p = I8 -> E_WriteUint8(e, Trunc(len, 1))
                         [] p = I16 -> E_WriteUint(e, 2, o, Trunc(len, 2))
                         [] p = I24 -> E_WriteUint(e, 3, o, Trunc(len, 4))
                         [] p = I32 -> E_WriteUint(e, 4, o, Trunc(len, 4))
                         [] p = I40 -> E_WriteUint(e, 5, o, len)
                         [] p = I64 -> E_WriteUint(e, 8, o, len)
                         [] p = IVar -> E_WriteUvarint(e, len)
        switch(len) == IF over(len)
                       THEN E_noteErr(e, IntegerOverflow(len, MaxUintW(p)))
                       ELSE E_WriteSlice(prefix(len), v)
    IN  IF E_quickFail(e) THEN e ELSE switch(SLen(v))

\* Encoder.WriteUTF8: the string is passed on as the slice of its bytes
E_WriteUTF8(e, o, p, v) ==
    IF E_quickFail(e) THEN e ELSE E_WriteBlob(e, o, p, v)

\* NewEncoder(out, failOnError)
NewEncoder(failOnError) ==
    [buf10 |-> [i \in 1..10 |-> 0], firstErr |-> Nil, failOnError |-> failOnError]

\* the frame of a call on the Encoder as it is, the sink answering rs
EncFrame(rs) ==
    [buf10 |-> eBuf10, firstErr |-> eFirstErr, failOnError |-> eFailOnError,
     calls |-> << >>, resp |-> rs, n |-> Zero, err |-> Nil]

\* the Encoder and the record of the call after the method op returned frame e
EncStore(op, e) ==
    /\ eBuf10' = e.buf10
    /\ eFirstErr' = e.firstErr
    /\ eOp' = op
    /\ eCalls' = e.calls
    /\ eRet' = [n |-> e.n, err |-> e.err]
    /\ UNCHANGED eFailOnError

\* a call of the method op on the Encoder alone
EncReturn(op, e) ==
    /\ EncStore(op, e)
    /\ UNCHANGED notEnc

EncFresh(failOnError) ==
    /\ eBuf10 = NewEncoder(failOnError).buf10
    /\ eFirstErr = NewEncoder(failOnError).firstErr
    /\ eFailOnError = NewEncoder(failOnError).failOnError
    /\ eOp = "NewEncoder"
    /\ eCalls = << >>
    /\ eRet = [n |-> Zero, err |-> Nil]


-----------------------------------------------------------------------------
(* The Decoder.  A method is an operator on the frame d of one call: the   *)
(* Decoder's fields buf8, firstErr and failOnError; src, the bytes the      *)
(* source still holds; reads, the calls of in.Read made so far; failAt, the *)
(* number of the coming call of in.Read that fails with ferr (0 for none); *)
(* n, err, data and v, what the innermost call returned.                    *)

\* io.EOF, io.ErrUnexpectedEOF
EOF == [kind |-> "EOF", val |-> Zero, max |-> Zero]
ErrUnexpectedEOF == [kind |-> "unexpected EOF", val |-> Zero, max |-> Zero]
\* the overflow error of encoding/binary
VarintOverflow == [kind |-> "binary: varint overflows a 64-bit integer", val |-> Zero, max |-> Zero]
\* no error in place of the length error
LengthErrorNone(val, max) == Nil

\* fmt.Errorf("decoded length %d is larger than allowed (%d)", bytesToRead, MaxInt)
LengthError(val, max) == [kind |-> "decoded length", val |-> val, max |-> max]

\* the largest slice the runtime allocates on a 64 bit platform
MaxAlloc == Shl1(48)

\* n, err := r.in.Read(buf) for a buffer of L > 0 bytes: the source hands out
\* what it holds, at most L bytes, and io.EOF when it holds nothing
SrcRead(d, L) ==
    LET left == IF d.failAt > 1 THEN d.failAt - 1 ELSE 0
        fail(err) == [d EXCEPT !.reads = Append(@, [want |-> L, n |-> Zero, err |-> err]),
                               !.failAt = left, !.n = Zero, !.err = err,
                               !.data = Slice(<< >>)]
        take(n) == [d EXCEPT !.reads = Append(@, [want |-> L, n |-> n, err |-> Nil]),
                             !.failAt = left, !.n = n, !.err = Nil,
                             !.data = SliceTo(d.src, n), !.src = SliceFrom(d.src, n)]
        read(avail) == IF d.failAt = 1 THEN fail(d.ferr)
                       ELSE IF avail = Zero THEN fail(EOF)
                       ELSE take(IF ULt(avail, L) THEN avail ELSE L)
    IN  read(SLen(d.src))

\* io.ReadAtLeast: for n < min && err == nil { nn, err = r.Read(buf[n:]) }
RECURSIVE ReadAtLeast(_, _, _, _)
ReadAtLeast(d, L, got, data) ==
    LET loop(d1) == ReadAtLeast(d1, L, Add(got, d1.n), Concat(data, d1.data))
    IN  IF ULt(got, L) /\ d.err = Nil
        THEN loop(SrcRead(d, Sub(L, got)))
        ELSE [d EXCEPT !.n = got, !.data = data,
                       !.err = IF ULe(L, got) THEN Nil
                               ELSE IF got # Zero /\ d.err = EOF THEN ErrUnexpectedEOF
                               ELSE d.err]

\* n, err := io.ReadFull(r.in, buf) for a buffer of L bytes
IoReadFull(d, L) == ReadAtLeast([d EXCEPT !.err = Nil], L, Zero, Slice(<< >>))

\* tmp := r.buf8[:w]; _, err := io.ReadFull(r.in, tmp)
ReadBuf8(d, w) ==
    LET store(d1, bs) == [d1 EXCEPT !.buf8 = bs \o SubSeq(@, Len(bs) + 1, 8)]
        stored(d1) == store(d1, Explicit(d1.data))
    IN  stored(IoReadFull(d, U64(w)))

\* Decoder.quickFail
D_quickFail(d) == d.failOnError /\ d.firstErr # Nil

\* Decoder.noteErr: the frame after the call; it returns firstErr != nil
D_noteErr(d, err) ==
    IF err # Nil /\ d.firstErr = Nil THEN [d EXCEPT !.firstErr = err] ELSE d

\* Decoder.ReadUint8
D_ReadUint8(d) ==
    LET note(d1) == D_noteErr(d1, d1.err)
        result(d2) == [d2 EXCEPT !.v = IF d2.firstErr # Nil THEN Zero
                                       ELSE Pack(<<d2.buf8[1]>>)]
    IN  IF D_quickFail(d) THEN [d EXCEPT !.v = Zero]
        ELSE result(note(ReadBuf8(d, 1)))

\* Decoder.ReadUint16 .. ReadUint64, w the number of bytes
D_ReadUint(d, w, o) ==
    LET note(d1) == D_noteErr(d1, d1.err)
        result(d2) == [d2 EXCEPT !.v = IF d2.firstErr # Nil THEN Zero
                                       ELSE OrderUint(o, w, SubSeq(d2.buf8, 1, w))]
    IN  IF D_quickFail(d) THEN [d EXCEPT !.v = Zero]
        ELSE result(note(ReadBuf8(d, w)))

\* Decoder.ReadInt16 .. ReadInt64: the conversion of what the unsigned read
\* returned.  ReadInt24 converts the uint32 of ReadUint24 to int32; ReadInt40,
\* ReadInt48 and ReadInt56 convert what ReadUint32 returns to int64.
D_ReadInt(d, w, o) ==
    LET convert(d1) == [d1 EXCEPT !.v = CASE w = 2 -> SignExt(@, 2)
                                          [] w \in {3, 4} -> SignExt(@, 4)
                                          [] w \in 5..8 -> @]
    IN  convert(D_ReadUint(d, IF w \in 5..7 THEN 4 ELSE w, o))

\* Decoder.ReadInt8
D_ReadInt8(d) == [D_ReadUint8(d) EXCEPT !.v = SignExt(@, 1)]

\* Decoder.ReadBool: 1 for true
D_ReadBool(d) == [D_ReadUint8(d) EXCEPT !.v = IF @ # Zero THEN One ELSE Zero]

\* Decoder.ReadFloat32, Decoder.ReadFloat64: the bit pattern of the float
D_ReadFloat32(d, o) == D_ReadUint(d, 4, o)
D_ReadFloat64(d, o) == D_ReadUint(d, 8, o)

\* Decoder.ReadComplex64, Decoder.ReadComplex128: v holds the bits of the
\* real part, n those of the imaginary part
D_ReadComplex64(d, o) ==
    LET imag(d1, re) == [d1 EXCEPT !.v = re, !.n = d1.v]
        real(d1) == imag(D_ReadFloat32(d1, o), d1.v)
    IN  real(D_ReadFloat32(d, o))
D_ReadComplex128(d, o) ==
    LET imag(d1, re) == [d1 EXCEPT !.v = re, !.n = d1.v]
        real(d1) == imag(D_ReadFloat64(d1, o), d1.v)
    IN  real(D_ReadFloat64(d, o))

\* Decoder.ReadFull for a buffer of L bytes: n is returned, data is what the
\* call stored into the buffer
D_ReadFull(d, L) ==
    LET note(d1) == D_noteErr(d1, d1.err)
    IN  note(IoReadFull(d, L))

\* Decoder.ReadBytes: data is buf[0:n]
D_ReadBytes(d, L) ==
    IF D_quickFail(d) THEN [d EXCEPT !.data = Slice(<< >>), !.n = Zero]
    ELSE D_ReadFull(d, L)

\* Decoder.ReadByte: v, err are returned
D_ReadByte(d) ==
    LET note(d1) == D_noteErr(d1, d1.err)
        result(d2) == IF d2.firstErr # Nil THEN [d2 EXCEPT !.v = Zero]
                      ELSE [d2 EXCEPT !.v = Pack(<<d2.buf8[1]>>), !.err = Nil]
    IN  IF D_quickFail(d) THEN [d EXCEPT !.v = Zero, !.err = d.firstErr]
        ELSE result(note(ReadBuf8(d, 1)))

\* Decoder.Read for a buffer of L > 0 bytes: n, err are returned
D_Read(d, L) ==
    LET note(d1) == D_noteErr(d1, d1.err)
    IN  IF D_quickFail(d) THEN [d EXCEPT !.n = Zero, !.err = d.firstErr]
        ELSE note(SrcRead(d, L))

\* uint64(b) << s for a byte b
ShlByte(b, s) ==
    LET place(q, x) == [i \in 1..8 |-> IF i = q + 1 THEN x % 256
                                       ELSE IF i = q + 2 THEN x \div 256 ELSE 0]
    IN  place(s \div 8, b * (2 ^ (s % 8)))

\* x >> 1
Shr1(x) == [i \in 1..8 |-> (x[i] \div 2) + (IF i < 8 THEN (x[i + 1] % 2) * 128 ELSE 0)]

\* binary.ReadUvarint(r), from byte i on, x and s as gathered so far; the
\* bytes come from Decoder.ReadByte: v, err are returned
RECURSIVE UvarintFrom(_, _, _, _)
UvarintFrom(d, i, x, s) ==
    LET byte(d1, b) ==
            IF d1.err # Nil
            THEN [d1 EXCEPT !.v = x,
                            !.err = IF i > 0 /\ @ = EOF THEN ErrUnexpectedEOF ELSE @]
            ELSE IF b < 128
            THEN IF i = 9 /\ b > 1
                 THEN [d1 EXCEPT !.v = x, !.err = VarintOverflow]
                 ELSE [d1 EXCEPT !.v = Add(x, ShlByte(b, s)), !.err = Nil]
            ELSE UvarintFrom(d1, i + 1, Add(x, ShlByte(b % 128, s)), s + 7)
        next(d1) == byte(d1, d1.v[1])
    IN  IF i = 10 THEN [d EXCEPT !.v = x, !.err = VarintOverflow]
        ELSE next(D_ReadByte(d))

BinaryReadUvarint(d) == UvarintFrom(d, 0, Zero, 0)

\* ReadVarint without the complement for an odd ux
BinaryReadVarintPlain(d) == [BinaryReadUvarint(d) EXCEPT !.v = Shr1(@)]

\* binary.ReadVarint(r): x := int64(ux >> 1); if ux&1 != 0 { x = ^x }
BinaryReadVarint(d) ==
    [BinaryReadUvarint(d) EXCEPT !.v = IF @[1] % 2 = 1 THEN Not(Shr1(@)) ELSE Shr1(@)]

\* Decoder.ReadUvarint
D_ReadUvarint(d) ==
    LET note(d1) == D_noteErr(d1, d1.err)
        result(d2) == IF d2.firstErr # Nil THEN [d2 EXCEPT !.v = Zero] ELSE d2
    IN  IF D_quickFail(d) THEN [d EXCEPT !.v = Zero]
        ELSE result(note(BinaryReadUvarint(d)))

\* Decoder.ReadVarint
D_ReadVarint(d) ==
    LET note(d1) == D_noteErr(d1, d1.err)
        result(d2) == IF d2.firstErr # Nil THEN [d2 EXCEPT !.v = Zero] ELSE d2
    IN  IF D_quickFail(d) THEN [d EXCEPT !.v = Zero]
        ELSE result(note(BinaryReadVarint(d)))

\* Decoder.ReadBlob; storageClass is one of the declared IntSize values.
\* The switch reads bytesToRead (IVar returns nil when noteErr reports an
\* error); then the check against MaxInt, buf := make([]byte,
\* int(bytesToRead)), r.ReadFull(buf) and return buf: data is the slice
\* returned.  A length beyond MaxAlloc makes make panic.
D_ReadBlob(d, order, storageClass) ==
    LET padded(d2, bytesToRead) ==
            [d2 EXCEPT !.data = Concat(@, Zeros(Sub(bytesToRead, d2.n)))]
        payload(d1, bytesToRead) ==
            IF ULt(MaxIntW(8), bytesToRead)
            THEN [D_noteErr(d1, LengthError(bytesToRead, MaxIntW(8)))
                      EXCEPT !.data = Slice(<< >>)]
            ELSE IF ULt(MaxAlloc, bytesToRead)
            THEN [d1 EXCEPT !.data = Slice(<< >>), !.panic = TRUE]
            ELSE padded(D_ReadFull(d1, bytesToRead), bytesToRead)
        fixed(d1) == payload(d1, d1.v)
        note(d1) == D_noteErr(d1, d1.err)
        varint(d2) == IF d2.firstErr # Nil THEN [d2 EXCEPT !.data = Slice(<< >>)]
                      ELSE payload(d2, d2.v)
    IN  IF D_quickFail(d) THEN [d EXCEPT !.data = Slice(<< >>)]
        ELSE CASE storageClass = I8 -> fixed(D_ReadUint8(d))
               [] storageClass \in {I16, I24, I32, I40, I64} ->
                    fixed(D_ReadUint(d, storageClass, order))
               [] storageClass = IVar -> varint(note(BinaryReadUvarint(d)))

\* ReadUTF8 that reads a prefix of 16 bit whatever p is
D_ReadUTF8Wide(d, order, p) == D_ReadBlob(d, order, I16)

\* Decoder.ReadUTF8: the string over the bytes ReadBlob returned
D_ReadUTF8(d, order, p) == D_ReadBlob(d, order, p)

\* NewDecoder(in, failOnError)
NewDecoder(failOnError) ==
    [buf8 |-> [i \in 1..8 |-> 0], firstErr |-> Nil, failOnError |-> failOnError]

-----------------------------------------------------------------------------
(* The Encoder over a sink that may fail: any sequence of its methods *)

\* What the calls are made with.  The error policy does not look at the
\* bytes written, and every value leaves its bytes in the scratch buffer, so
\* the values are few here; the codec specification below writes all of
\* Samples.  A method that calls the sink twice gets errA from the first
\* call and errB from the second.
EncValues == {Zero}
EncPayloads == {Slice(<< >>), Slice(<<0>>)}
EncOrders == {LittleEndian}
EncBlobArgs == (IntSizes \X {Slice(<<0>>)}) \cup {<<I8, Zeros(U64(256))>>}
Resp1 == {<<r>> : r \in SinkResponses}
Resp2 == {<<r1, r2>> : r1 \in SinkResponses \ {[kind |-> "fail", err |-> IOErr("errB")]},
                       r2 \in SinkResponses \ {[kind |-> "fail", err |-> IOErr("errA")]}}


EncWriteSlice ==
    \E v \in EncPayloads, rs \in Resp1 :
        EncReturn("WriteSlice", E_WriteSlice(EncFrame(rs), v))

EncWriteBlob ==
    \E o \in EncOrders, a \in EncBlobArgs, rs \in Resp2 :
        EncReturn("WriteBlob", E_WriteBlob(EncFrame(rs), o, a[1], a[2]))

EncWriteUTF8 ==
    \E o \in EncOrders, a \in EncBlobArgs, rs \in Resp2 :
        EncReturn("WriteUTF8", E_WriteUTF8(EncFrame(rs), o, a[1], a[2]))

EncWriteBool ==
    \E v \in BOOLEAN, rs \in Resp1 :
        EncReturn("WriteBool", E_WriteBool(EncFrame(rs), v))

EncWriteUint8 ==
    \E v \in EncValues, rs \in Resp1 :
        EncReturn("WriteUint8", E_WriteUint8(EncFrame(rs), Trunc(v, 1)))

\* Encoder.WriteInt8: e.WriteUint8(uint8(v))
EncWriteInt8 ==
    \E v \in EncValues, rs \in Resp1 :
        EncReturn("WriteInt8", E_WriteUint8(EncFrame(rs), Trunc(SignExt(v, 1), 1)))

\* Encoder.WriteUint16 .. WriteUint64
EncWriteUint ==
    \E w \in Widths, o \in EncOrders, v \in EncValues, rs \in Resp1 :
        EncReturn("WriteUint", E_WriteUint(EncFrame(rs), w, o, Trunc(v, w)))

\* Encoder.WriteInt16 .. WriteInt64
EncWriteInt ==
    \E w \in Widths, o \in EncOrders, v \in EncValues, rs \in Resp1 :
        EncReturn("WriteInt", E_WriteInt(EncFrame(rs), w, o, SignExt(v, w)))

EncWriteUvarint ==
    \E v \in EncValues, rs \in Resp1 :
        EncReturn("WriteUvarint", E_WriteUvarint(EncFrame(rs), v))

EncWriteVarint ==
    \E v \in EncValues, rs \in Resp1 :
        EncReturn("WriteVarint", E_WriteVarint(EncFrame(rs), v))

EncWriteFloat32 ==
    \E o \in EncOrders, v \in EncValues, rs \in Resp1 :
        EncReturn("WriteFloat32", E_WriteFloat32(EncFrame(rs), o, Trunc(v, 4)))

EncWriteFloat64 ==
    \E o \in EncOrders, v \in EncValues, rs \in Resp1 :
        EncReturn("WriteFloat64", E_WriteFloat64(EncFrame(rs), o, v))

EncWriteComplex64 ==
    \E o \in EncOrders, v \in EncValues, rs \in Resp2 :
        EncReturn("WriteComplex64",
                  E_WriteComplex64(EncFrame(rs), o, Trunc(v, 4), Trunc(v, 4)))

EncWriteComplex128 ==
    \E o \in EncOrders, v \in EncValues, rs \in Resp2 :
        EncReturn("WriteComplex128", E_WriteComplex128(EncFrame(rs), o, v, v))

EncWrite ==
    \E v \in EncPayloads, rs \in Resp1 :
        EncReturn("Write", E_Write(EncFrame(rs), v))

EncWriteByte ==
    \E v \in EncValues, rs \in Resp1 :
        EncReturn("WriteByte", E_WriteByte(EncFrame(rs), ByteAt(v, 0)))

\* Encoder.Reset
EncReset ==
    /\ eFirstErr' = Nil
    /\ eOp' = "Reset"
    /\ eCalls' = << >>
    /\ eRet' = [n |-> Zero, err |-> Nil]
    /\ UNCHANGED <<eBuf10, eFailOnError>>
    /\ UNCHANGED notEnc

EncNext ==
    \/ EncWriteSlice \/ EncWriteBlob \/ EncWriteUTF8 \/ EncWriteBool
    \/ EncWriteUint8 \/ EncWriteInt8 \/ EncWriteUint \/ EncWriteInt
    \/ EncWriteUvarint \/ EncWriteVarint \/ EncWriteFloat32 \/ EncWriteFloat64
    \/ EncWriteComplex64 \/ EncWriteComplex128 \/ EncWrite \/ EncWriteByte
    \/ EncReset

-----------------------------------------------------------------------------
(* The Decoder over a source that may fail: any sequence of its methods *)

\* the frame of a call on the Decoder as it is, the call failAt of in.Read
\* failing with errA
DecFrame(failAt) ==
    [buf8 |-> dBuf8, firstErr |-> dFirstErr, failOnError |-> dFailOnError,
     src |-> dSrc, reads |-> << >>, failAt |-> failAt,
     ferr |-> IOErr("errA"),
     n |-> Zero, err |-> Nil, data |-> Slice(<< >>), v |-> Zero, panic |-> FALSE]

\* the Decoder, the source and the record of the call after the method op
\* returned frame d
DecStore(op, d) ==
    /\ dBuf8' = d.buf8
    /\ dFirstErr' = d.firstErr
    /\ dSrc' = d.src
    /\ dOp' = op
    /\ dReads' = d.reads
    /\ dRet' = [v |-> d.v, data |-> d.data, n |-> d.n, err |-> d.err,
                panic |-> d.panic]
    /\ UNCHANGED dFailOnError

\* a call of the method op on the Decoder alone
DecReturn(op, d) ==
    /\ DecStore(op, d)
    /\ UNCHANGED notDec

\* the source holds DecSrcLen bytes, each of them a 1
DecSrcLen == 4
DecSource == Slice([i \in 1..DecSrcLen |-> 1])
\* the byte order the reads are made with
DecOrders == {BigEndian}

DecFresh(failOnError) ==
    /\ dBuf8 = NewDecoder(failOnError).buf8
    /\ dFirstErr = NewDecoder(failOnError).firstErr
    /\ dFailOnError = NewDecoder(failOnError).failOnError
    /\ dSrc = DecSource
    /\ dOp = "NewDecoder"
    /\ dReads = << >>
    /\ dRet = [v |-> Zero, data |-> Slice(<< >>), n |-> Zero, err |-> Nil,
               panic |-> FALSE]


\* which call of in.Read fails, 0 for none
FailAts == 0..1
\* the buffer lengths of ReadFull, ReadBytes and Read
DecLens == {U64(1), U64(3)}

DecReadBlob ==
    \E o \in DecOrders, p \in IntSizes, f \in FailAts :
        DecReturn("ReadBlob", D_ReadBlob(DecFrame(f), o, p))

DecReadUTF8 ==
    \E o \in DecOrders, p \in IntSizes, f \in FailAts :
        DecReturn("ReadUTF8", D_ReadUTF8(DecFrame(f), o, p))

DecReadBytes ==
    \E L \in DecLens, f \in FailAts :
        DecReturn("ReadBytes", D_ReadBytes(DecFrame(f), L))

DecReadFull ==
    \E L \in DecLens \cup {Zero}, f \in FailAts :
        DecReturn("ReadFull", D_ReadFull(DecFrame(f), L))

DecReadUvarint ==
    \E f \in FailAts : DecReturn("ReadUvarint", D_ReadUvarint(DecFrame(f)))

DecReadVarint ==
    \E f \in FailAts : DecReturn("ReadVarint", D_ReadVarint(DecFrame(f)))

DecReadBool ==
    \E f \in FailAts : DecReturn("ReadBool", D_ReadBool(DecFrame(f)))

DecReadUint8 ==
    \E f \in FailAts : DecReturn("ReadUint8", D_ReadUint8(DecFrame(f)))

\* Decoder.ReadUint16 .. ReadUint64
DecReadUint ==
    \E w \in Widths, o \in DecOrders, f \in FailAts :
        DecReturn("ReadUint", D_ReadUint(DecFrame(f), w, o))

\* Decoder.ReadInt16 .. ReadInt64
DecReadInt ==
    \E w \in Widths, o \in DecOrders, f \in FailAts :
        DecReturn("ReadInt", D_ReadInt(DecFrame(f), w, o))

DecReadInt8 ==
    \E f \in FailAts : DecReturn("ReadInt8", D_ReadInt8(DecFrame(f)))

DecReadFloat32 ==
    \E o \in DecOrders, f \in FailAts :
        DecReturn("ReadFloat32", D_ReadFloat32(DecFrame(f), o))

DecReadFloat64 ==
    \E o \in DecOrders, f \in FailAts :
        DecReturn("ReadFloat64", D_ReadFloat64(DecFrame(f), o))

DecReadComplex64 ==
    \E o \in DecOrders, f \in FailAts :
        DecReturn("ReadComplex64", D_ReadComplex64(DecFrame(f), o))

DecReadComplex128 ==
    \E o \in DecOrders, f \in FailAts :
        DecReturn("ReadComplex128", D_ReadComplex128(DecFrame(f), o))

DecReadByte ==
    \E f \in FailAts : DecReturn("ReadByte", D_ReadByte(DecFrame(f)))

DecRead ==
    \E L \in DecLens, f \in FailAts : DecReturn("Read", D_Read(DecFrame(f), L))

\* Decoder.Reset
DecReset ==
    /\ dFirstErr' = Nil
    /\ dOp' = "Reset"
    /\ dReads' = << >>
    /\ dRet' = [v |-> Zero, data |-> Slice(<< >>), n |-> Zero, err |-> Nil,
                panic |-> FALSE]
    /\ UNCHANGED <<dBuf8, dFailOnError, dSrc>>
    /\ UNCHANGED notDec

DecNext ==
    \/ DecReadBlob \/ DecReadUTF8 \/ DecReadBytes \/ DecReadFull
    \/ DecReadUvarint \/ DecReadVarint \/ DecReadBool \/ DecReadUint8
    \/ DecReadUint \/ DecReadInt8 \/ DecReadInt \/ DecReadFloat32 \/ DecReadFloat64
    \/ DecReadComplex64 \/ DecReadComplex128 \/ DecReadByte \/ DecRead
    \/ DecReset

-----------------------------------------------------------------------------
(* The little endian buffer and the typed buffer over it.  A method is an  *)
(* operator on the frame f of one call: the fields Bytes and Pos, v, the   *)
(* value the innermost read returned, and panic, whether an index was out  *)
(* of range.                                                               *)

\* the Type tags TUint8 .. TUint64 and TInt8 .. TInt64 by the width of w bytes
TUint(w) == w
TInt(w) == 8 + w
TFloat32 == 25
TFloat64 == 26

\* LittleEndianBuffer.WriteUint8 .. WriteUint64, w the number of bytes:
\* b := f.Bytes[f.Pos:]; f.Pos += w; b[0] = byte(v); b[1] = byte(v >> 8) ...
LE_WriteUint(f, w, v) ==
    IF f.panic THEN f
    ELSE IF f.Pos + w > Len(f.Bytes)
    THEN [f EXCEPT !.panic = TRUE,
                   !.Pos = IF w > 1 /\ @ <= Len(f.Bytes) THEN @ + w ELSE @]
    ELSE [f EXCEPT !.Bytes = [i \in 1..Len(f.Bytes) |->
                                 IF i \in (f.Pos + 1)..(f.Pos + w)
                                 THEN ByteAt(v, i - f.Pos - 1) ELSE f.Bytes[i]],
                   !.Pos = @ + w]

\* ReadUintW that returns the w bytes and moves Pos as ReadUint64 does
LE_ReadUintWide(f, w) ==
    IF f.panic THEN f
    ELSE IF f.Pos + w > Len(f.Bytes)
    THEN [f EXCEPT !.panic = TRUE,
                   !.Pos = IF w > 1 /\ @ <= Len(f.Bytes) THEN @ + w ELSE @]
    ELSE [f EXCEPT !.v = Pack(SubSeq(f.Bytes, f.Pos + 1, f.Pos + w)),
                   !.Pos = @ + 8]

\* LittleEndianBuffer.ReadUint8 .. ReadUint64, w the number of bytes:
\* b := f.Bytes[f.Pos:]; f.Pos += w; return uint64(b[0]) | uint64(b[1])<<8 ...
LE_ReadUint(f, w) ==
    IF f.panic THEN f
    ELSE IF f.Pos + w > Len(f.Bytes)
    THEN [f EXCEPT !.panic = TRUE,
                   !.Pos = IF w > 1 /\ @ <= Len(f.Bytes) THEN @ + w ELSE @]
    ELSE [f EXCEPT !.v = Pack(SubSeq(f.Bytes, f.Pos + 1, f.Pos + w)),
                   !.Pos = @ + w]

\* LittleEndianBuffer.WriteType, LittleEndianBuffer.ReadType
LE_WriteType(f, typ) == LE_WriteUint(f, 1, U64(typ))
LE_ReadType(f) == LE_ReadUint(f, 1)

\* WriteInt with a ladder that looks at the signed maximum of each width only
WriteIntWidthSigned(v) ==
    LET within(w) == ~SLt(v, MinIntW(w)) /\ ~SLt(MaxIntW(w), v)
    IN  IF within(1) THEN 1 ELSE IF within(2) THEN 2 ELSE IF within(3) THEN 3
        ELSE IF within(4) THEN 4 ELSE IF within(5) THEN 5 ELSE IF within(6) THEN 6
        ELSE IF within(7) THEN 7 ELSE 8

\* WriteInt: the ladder of if v >= int64(MinIntW) && v <= int64(MaxUintW),
\* from 8 to 56 bit; the number of bytes of the rung that is taken, 8 when
\* none is
WriteIntWidth(v) ==
    LET within(w) == ~SLt(v, MinIntW(w)) /\ ~SLt(MaxUintW(w), v)
    IN  IF within(1) THEN 1 ELSE IF within(2) THEN 2 ELSE IF within(3) THEN 3
        ELSE IF within(4) THEN 4 ELSE IF within(5) THEN 5 ELSE IF within(6) THEN 6
        ELSE IF within(7) THEN 7 ELSE 8

\* TypedLittleEndianBuffer.WriteInt (LittleEndianBuffer.WriteInt is the same
\* code): on the rung of w bytes, TUintW if v > int64(MaxIntW), else TIntW,
\* then WriteUintW of v converted to the parameter's type; TInt64 and
\* WriteUint64 below the ladder
T_WriteInt(f, v) ==
    LET typ(w) == IF w = 8 THEN TInt(8)
                  ELSE IF SLt(MaxIntW(w), v) THEN TUint(w) ELSE TInt(w)
        arg(w) == Trunc(v, IF w = 3 THEN 4 ELSE IF w > 4 THEN 8 ELSE w)
        write(w) == LE_WriteUint(LE_WriteType(f, typ(w)), w, arg(w))
    IN  write(WriteIntWidth(v))

\* ReadInt that reads one byte for a tag it has no case for
T_ReadIntLenient(f) ==
    LET switch(f1, typ) ==
            CASE typ \in 1..8 -> LE_ReadUint(f1, typ)
              [] typ \in 9..16 -> LE_ReadUint(f1, typ - 8)
              [] typ = TFloat32 -> [LE_ReadUint(f1, 4) EXCEPT !.v = None]
              [] typ = TFloat64 -> [LE_ReadUint(f1, 8) EXCEPT !.v = None]
              [] OTHER -> LE_ReadUint(f1, 1)
        next(f1) == IF f1.panic THEN f1 ELSE switch(f1, f1.v[1])
    IN  next(LE_ReadType(f))

\* TypedLittleEndianBuffer.ReadInt (LittleEndianBuffer.ReadInt is the same
\* code): the unsigned read of the tag's width, then the conversion of the
\* case: int8, int16 and int32 sign-extend, and int32 is what TInt24 gets
\* and int64 what TInt40, TInt48 and TInt56 get.  int64 of a float is not a
\* value of this model: WriteInt writes no float tag.
T_ReadInt(f) ==
    LET convert(f2, typ) ==
            [f2 EXCEPT !.v = CASE typ = TInt(1) -> SignExt(@, 1)
                               [] typ = TInt(2) -> SignExt(@, 2)
                               [] typ \in {TInt(3), TInt(4)} -> SignExt(@, 4)
                               [] OTHER -> @]
        switch(f1, typ) ==
            CASE typ \in 1..8 -> convert(LE_ReadUint(f1, typ), typ)
              [] typ \in 9..16 -> convert(LE_ReadUint(f1, typ - 8), typ)
              [] typ = TFloat32 -> [LE_ReadUint(f1, 4) EXCEPT !.v = None]
              [] typ = TFloat64 -> [LE_ReadUint(f1, 8) EXCEPT !.v = None]
              [] OTHER -> [f1 EXCEPT !.panic = TRUE]
        next(f1) == IF f1.panic THEN f1 ELSE switch(f1, f1.v[1])
    IN  next(LE_ReadType(f))

-----------------------------------------------------------------------------
(* The typed buffer round trip (letbuffer_test.go): buf.WriteInt(v);       *)
(* buf.Pos = start; v2 := buf.ReadInt()                                    *)

\* len(buf.Bytes), and the positions the write starts at
TBufLen == 10
TStarts == {0, 1}

\* &TypedLittleEndianBuffer{Bytes: make([]byte, TBufLen), Pos: start}
TBFresh(start) ==
    /\ tBytes = [i \in 1..TBufLen |-> 0]
    /\ tPos = start
    /\ tIn = [v |-> None, start |-> start, end |-> start]
    /\ tOut = None
    /\ tPc = "start"

\* the frame of a call on the buffer as it is
TBFrame == [Bytes |-> tBytes, Pos |-> tPos, v |-> Zero, panic |-> FALSE]

\* the buffer after a call returned frame f, and what a read returned
TBReturn(pc, f) ==
    /\ tBytes' = f.Bytes
    /\ tPos' = f.Pos
    /\ tOut' = IF f.panic THEN "panic" ELSE IF pc = "read" THEN f.v ELSE None
    /\ tPc' = pc
    /\ UNCHANGED notTB

\* buf.WriteInt(v)
TBWriteInt ==
    /\ tPc = "start"
    /\ \E v \in Samples :
          /\ TBReturn("written", T_WriteInt(TBFrame, v))
          /\ tIn' = [tIn EXCEPT !.v = v]

\* end := buf.Pos; buf.Pos = start
TBRewind ==
    /\ tPc = "written"
    /\ tIn' = [tIn EXCEPT !.end = tPos]
    /\ tPos' = tIn.start
    /\ tPc' = "rewound"
    /\ UNCHANGED <<tBytes, tOut>>
    /\ UNCHANGED notTB

\* v2 := buf.ReadInt()
TBReadInt ==
    /\ tPc = "rewound"
    /\ TBReturn("read", T_ReadInt(TBFrame))
    /\ UNCHANGED tIn

TBNext == TBWriteInt \/ TBRewind \/ TBReadInt

-----------------------------------------------------------------------------
(* Round trips through the Encoder and the Decoder (encoder_test.go): one  *)
(* write into a bytes.Buffer, a Decoder over the bytes written and two     *)
(* bytes behind them, the read that matches the write, and a ReadUint8.    *)

\* v is a value of the signed type of w bytes
FitsSigned(v, w) == SignExt(v, w) = v

\* bytes.Buffer takes all of p, for each of the two calls a write may make
SinkOk == <<[kind |-> "ok", err |-> Nil], [kind |-> "ok", err |-> Nil]>>

\* the bytes the sink took in the calls of one write
SinkBytes(calls) ==
    CASE Len(calls) = 0 -> Slice(<< >>)
      [] Len(calls) = 1 -> SliceTo(calls[1].p, calls[1].n)
      [] Len(calls) = 2 -> Concat(SliceTo(calls[1].p, calls[1].n),
                                  SliceTo(calls[2].p, calls[2].n))

\* the two bytes that follow the written bytes in the source
Sentinel == Slice(<<170, 187>>)

\* the payloads of WriteBlob and WriteUTF8: short ones, and one at each limit
\* of a prefix and one above it; the long ones are zeros between two marks
Marked(n) == [h |-> <<1>>, z |-> Sub(n, U64(2)), t |-> <<2>>]
CodecPayloads ==
    {Slice(<< >>), Slice(<<7>>), Slice(<<1, 0, 255>>)}
        \cup {Marked(MaxUintW(w)) : w \in {1, 2, 3, 4, 5}}
        \cup {Marked(Add(MaxUintW(w), One)) : w \in {1, 2, 3, 4, 5}}

CodecFresh ==
    /\ cIn = None
    /\ cPc = "start"

\* the Encoder after the write op with the arguments o, w, v returned frame e
CodecWrote(op, o, w, v, e) ==
    /\ EncStore(op, e)
    /\ cIn' = [op |-> op, o |-> o, w |-> w, v |-> v]
    /\ cPc' = "written"
    /\ UNCHANGED <<restVars, boVars, decVars, tbVars>>

\* Encoder.WriteInt8 .. WriteInt64
CodecWriteInt ==
    \E w \in 1..8, o \in ByteOrders, v \in Samples :
        /\ cPc = "start"
        /\ FitsSigned(v, w)
        /\ CodecWrote("WriteInt", o, w, v,
                      IF w = 1 THEN E_WriteUint8(EncFrame(SinkOk), Trunc(v, 1))
                      ELSE E_WriteInt(EncFrame(SinkOk), w, o, v))

\* Encoder.WriteUint8 .. WriteUint64
CodecWriteUint ==
    \E w \in 1..8, o \in ByteOrders, v \in Samples :
        /\ cPc = "start"
        /\ FitsUnsigned(v, w)
        /\ CodecWrote("WriteUint", o, w, v,
                      IF w = 1 THEN E_WriteUint8(EncFrame(SinkOk), v)
                      ELSE E_WriteUint(EncFrame(SinkOk), w, o, v))

CodecWriteBlob ==
    \E o \in ByteOrders, p \in IntSizes, b \in CodecPayloads :
        /\ cPc = "start"
        /\ CodecWrote("WriteBlob", o, p, b, E_WriteBlob(EncFrame(SinkOk), o, p, b))

CodecWriteUTF8 ==
    \E o \in ByteOrders, p \in IntSizes, b \in CodecPayloads :
        /\ cPc = "start"
        /\ CodecWrote("WriteUTF8", o, p, b, E_WriteUTF8(EncFrame(SinkOk), o, p, b))

\* dec := NewDecoder(bytes.NewReader(append(sink.Bytes(), 170, 187)), f),
\* when the write recorded no error
CodecPipe ==
    /\ cPc = "written"
    /\ eFirstErr = Nil
    /\ dSrc' = Concat(SinkBytes(eCalls), Sentinel)
    /\ cPc' = "piped"
    /\ UNCHANGED <<dBuf8, dFirstErr, dFailOnError, dOp, dReads, dRet>>
    /\ UNCHANGED <<restVars, boVars, encVars, tbVars, cIn>>

\* the Decoder after the read op of step pc returned frame d
CodecDid(pc, op, d) ==
    /\ DecStore(op, d)
    /\ cPc' = pc
    /\ UNCHANGED <<restVars, boVars, encVars, tbVars, cIn>>

\* Decoder.ReadInt8 .. ReadInt64
CodecReadInt ==
    /\ cPc = "piped"
    /\ cIn.op = "WriteInt"
    /\ CodecDid("read", "ReadInt",
                IF cIn.w = 1 THEN D_ReadInt8(DecFrame(0))
                ELSE D_ReadInt(DecFrame(0), cIn.w, cIn.o))

\* Decoder.ReadUint8 .. ReadUint64
CodecReadUint ==
    /\ cPc = "piped"
    /\ cIn.op = "WriteUint"
    /\ CodecDid("read", "ReadUint",
                IF cIn.w = 1 THEN D_ReadUint8(DecFrame(0))
                ELSE D_ReadUint(DecFrame(0), cIn.w, cIn.o))

CodecReadBlob ==
    /\ cPc = "piped"
    /\ cIn.op = "WriteBlob"
    /\ CodecDid("read", "ReadBlob", D_ReadBlob(DecFrame(0), cIn.o, cIn.w))

CodecReadUTF8 ==
    /\ cPc = "piped"
    /\ cIn.op = "WriteUTF8"
    /\ CodecDid("read", "ReadUTF8", D_ReadUTF8(DecFrame(0), cIn.o, cIn.w))

\* the read that follows: Decoder.ReadUint8
CodecReadNext ==
    /\ cPc = "read"
    /\ CodecDid("next", "ReadUint8", D_ReadUint8(DecFrame(0)))

CodecNext ==
    \/ CodecWriteInt \/ CodecWriteUint \/ CodecWriteBlob \/ CodecWriteUTF8
    \/ CodecPipe
    \/ CodecReadInt \/ CodecReadUint \/ CodecReadBlob \/ CodecReadUTF8
    \/ CodecReadNext

-----------------------------------------------------------------------------
(* The round trip of a varint: enc.WriteVarint(v) or enc.WriteUvarint(v)   *)
(* into a sink that takes every byte, the bytes and two more as the source *)
(* of the Decoder, dec.ReadVarint() or dec.ReadUvarint(), and the read of  *)
(* the byte that follows.                                                  *)

\* Encoder.WriteVarint
VarWriteVarint ==
    /\ cPc = "start"
    /\ \E v \in Samples :
          CodecWrote("WriteVarint", None, IVar, v, E_WriteVarint(EncFrame(SinkOk), v))

\* Encoder.WriteUvarint
VarWriteUvarint ==
    /\ cPc = "start"
    /\ \E v \in Samples :
          CodecWrote("WriteUvarint", None, IVar, v, E_WriteUvarint(EncFrame(SinkOk), v))

\* Decoder.ReadVarint
VarReadVarint ==
    /\ cPc = "piped"
    /\ cIn.op = "WriteVarint"
    /\ CodecDid("read", "ReadVarint", D_ReadVarint(DecFrame(0)))

\* Decoder.ReadUvarint
VarReadUvarint ==
    /\ cPc = "piped"
    /\ cIn.op = "WriteUvarint"
    /\ CodecDid("read", "ReadUvarint", D_ReadUvarint(DecFrame(0)))

VarNext ==
    \/ VarWriteVarint \/ VarWriteUvarint \/ CodecPipe \/ VarReadVarint
    \/ VarReadUvarint \/ CodecReadNext

-----------------------------------------------------------------------------
(* Drain, ReadFloat and the typed fixed-width writes of the buffer         *)

TBlob(c) == 16 + c
TString(c) == 20 + c

\* int(x) of a pattern below 1<<31
IntOf(v) == v[1] + 256 * v[2] + 65536 * v[3] + 16777216 * v[4]

\* LittleEndianBuffer.Drain: the switch on t, f.Pos++ .. f.Pos += 8 for the
\* tags of 8, 16, 24, 32 and 64 bit and the floats, vLen := int(f.ReadUintW());
\* f.Pos += vLen for the strings and blobs, panic("not implemented") by
\* default; v is the returned f.Pos - oldPos
LE_Drain(f, t) ==
    LET skip(w) == [f EXCEPT !.Pos = @ + w, !.v = w]
        prefixed(g) == IF g.panic THEN g
                       ELSE [g EXCEPT !.Pos = @ + IntOf(g.v),
                                      !.v = g.Pos + IntOf(g.v) - f.Pos]
    IN  CASE t \in {TInt(1), TUint(1)} -> skip(1)
          [] t \in {TInt(2), TUint(2)} -> skip(2)
          [] t \in {TInt(3), TUint(3)} -> skip(3)
          [] t \in {TInt(4), TUint(4)} -> skip(4)
          [] t \in {TInt(8), TUint(8)} -> skip(8)
          [] t \in {TString(1), TBlob(1)} -> prefixed(LE_ReadUint(f, 1))
          [] t \in {TString(2), TBlob(2)} -> prefixed(LE_ReadUint(f, 2))
          [] t \in {TString(3), TBlob(3)} -> prefixed(LE_ReadUint(f, 3))
          [] t \in {TString(4), TBlob(4)} -> prefixed(LE_ReadUint(f, 4))
          [] t = TFloat32 -> skip(4)
          [] t = TFloat64 -> skip(8)
          [] OTHER -> [f EXCEPT !.panic = TRUE]

\* TypedLittleEndianBuffer.ReadFloat (LittleEndianBuffer.ReadFloat is the same
\* code): the read of the tag's width for every integer tag and the two
\* float tags, panic("unsupported type") by default.  The float64 of the
\* value is not a value of this model: v is the pattern that was read.
T_ReadFloat(f) ==
    LET switch(f1, typ) ==
            CASE typ \in 1..8 -> LE_ReadUint(f1, typ)
              [] typ \in 9..16 -> LE_ReadUint(f1, typ - 8)
              [] typ = TFloat32 -> LE_ReadUint(f1, 4)
              [] typ = TFloat64 -> LE_ReadUint(f1, 8)
              [] OTHER -> [f1 EXCEPT !.panic = TRUE]
        next(f1) == IF f1.panic THEN f1 ELSE switch(f1, f1.v[1])
    IN  next(LE_ReadType(f))

\* TypedLittleEndianBuffer.WriteUint8 .. WriteInt64, WriteFloat32 and
\* WriteFloat64: f.WriteType(typ); f.WriteUintW(v)
T_WriteTagged(f, typ, v) ==
    LET w == IF typ \in 1..8 THEN typ ELSE IF typ \in 9..16 THEN typ - 8
             ELSE IF typ = TFloat32 THEN 4 ELSE 8
    IN  LE_WriteUint(LE_WriteType(f, typ), w, Trunc(v, w))

-----------------------------------------------------------------------------
(* Blobs and strings of the buffer.  The payloads are as long as 1<<32     *)
(* bytes, so these methods are operators on a frame g whose Bytes is a     *)
(* slice of the model (h, z, t) and whose Pos is a 64-bit pattern; data is *)
(* what a read copied into the caller's slice.                             *)

\* s[lo : lo+n]
SubSlice(s, lo, n) == SliceTo(SliceFrom(s, lo), n)

\* copy(s[lo:], v), for lo + len(v) <= len(s)
Splice(s, lo, v) ==
    Concat(Concat(SliceTo(s, lo), v), SliceFrom(s, Add(lo, SLen(v))))

\* the frame g of a frame f of explicit bytes, and back
Wide(f) == [Bytes |-> Slice(f.Bytes), Pos |-> U64(f.Pos), v |-> f.v,
            panic |-> f.panic, data |-> Slice(<< >>)]
Narrow(g) == [Bytes |-> Explicit(g.Bytes), Pos |-> Small(g.Pos), v |-> g.v,
              panic |-> g.panic]

\* LittleEndianBuffer.WriteUint8 .. WriteUint32 on a frame g
LS_WriteUint(g, w, v) ==
    IF g.panic THEN g
    ELSE IF ULt(SLen(g.Bytes), Add(g.Pos, U64(w)))
    THEN [g EXCEPT !.panic = TRUE,
                   !.Pos = IF w > 1 /\ ULe(@, SLen(g.Bytes))
                           THEN Add(@, U64(w)) ELSE @]
    ELSE [g EXCEPT !.Bytes = Splice(@, g.Pos, Slice(SubSeq(v, 1, w))),
                   !.Pos = Add(@, U64(w))]

\* LittleEndianBuffer.ReadUint8 .. ReadUint32 on a frame g
LS_ReadUint(g, w) ==
    IF g.panic THEN g
    ELSE IF ULt(SLen(g.Bytes), Add(g.Pos, U64(w)))
    THEN [g EXCEPT !.panic = TRUE,
                   !.Pos = IF w > 1 /\ ULe(@, SLen(g.Bytes))
                           THEN Add(@, U64(w)) ELSE @]
    ELSE [g EXCEPT !.v = Pack(Explicit(SubSlice(g.Bytes, g.Pos, U64(w)))),
                   !.Pos = Add(@, U64(w))]

\* LittleEndianBuffer.WriteSlice: b := f.Bytes[f.Pos : f.Pos+len(v)];
\* copy(b, v); f.Pos += len(v)
LE_WriteSlice(g, v) ==
    IF g.panic THEN g
    ELSE IF ULt(SLen(g.Bytes), Add(g.Pos, SLen(v))) THEN [g EXCEPT !.panic = TRUE]
    ELSE [g EXCEPT !.Bytes = Splice(@, g.Pos, v), !.Pos = Add(@, SLen(v))]

\* LittleEndianBuffer.ReadSlice into a slice v of n bytes:
\* b := f.Bytes[f.Pos : f.Pos+len(v)]; copy(v, b); f.Pos += len(v)
LE_ReadSlice(g, n) ==
    IF g.panic THEN g
    ELSE IF ULt(SLen(g.Bytes), Add(g.Pos, n)) THEN [g EXCEPT !.panic = TRUE]
    ELSE [g EXCEPT !.data = SubSlice(g.Bytes, g.Pos, n), !.Pos = Add(@, n)]

\* LittleEndianBuffer.WriteBlob8 .. WriteBlob32, c the bytes of the prefix:
\* vLen := len(v); if vLen > int(MaxUintW) { vLen = int(MaxUintW) };
\* f.WriteUintW(uintW(vLen)); f.WriteSlice(v[:vLen])
LE_WriteBlob(g, c, v) ==
    LET write(vLen) == LE_WriteSlice(LS_WriteUint(g, c, vLen), SliceTo(v, vLen))
    IN  write(IF ULt(MaxUintW(c), SLen(v)) THEN MaxUintW(c) ELSE SLen(v))

\* LittleEndianBuffer.ReadBlob8 .. ReadBlob32 into a slice v of capacity cap:
\* vLen := f.ReadUintW(); vBuf := v[0:vLen]; f.ReadSlice(vBuf);
\* return int(vLen)
LE_ReadBlobN(g, c, cap) ==
    LET slice(g1) == IF g1.panic THEN g1
                     ELSE IF ULt(cap, g1.v) THEN [g1 EXCEPT !.panic = TRUE]
                     ELSE LE_ReadSlice(g1, g1.v)
    IN  slice(LS_ReadUint(g, c))

\* LittleEndianBuffer.ReadString8 .. ReadString32: vLen := f.ReadBlobN(strBuffer);
\* strBuffer = strBuffer[:vLen]; return *(*string)(unsafe.Pointer(&vLen)).
\* The string header that is returned is read at the address of the int
\* vLen: its Data word is the value of vLen, an integer and no pointer into
\* strBuffer, and its Len word is the word behind vLen in memory, which is
\* any word; v is that header.
LE_ReadStringN(g, c, cap, behind) ==
    LET header(g1) ==
            IF g1.panic THEN g1
            ELSE [g1 EXCEPT !.v = [Data |-> [of |-> "int", at |-> g1.v],
                                   Len |-> behind]]
    IN  header(LE_ReadBlobN(g, c, cap))

\* the prefix bytes of WriteString and WriteBlob: if len(b) <= int(MaxUint8)
\* .. if len(b) <= int(MaxUint24), else 4
PrefixClass(n) ==
    IF ULe(n, MaxUintW(1)) THEN 1 ELSE IF ULe(n, MaxUintW(2)) THEN 2
    ELSE IF ULe(n, MaxUintW(3)) THEN 3 ELSE 4

\* TypedLittleEndianBuffer.WriteBlob8 .. WriteBlob32: f.WriteType(TBlobN);
\* f.WriteBlobN(v)
T_WriteBlobN(g, c, v) == LE_WriteBlob(LS_WriteUint(g, 1, U64(TBlob(c))), c, v)

\* TypedLittleEndianBuffer.WriteBlob (LittleEndianBuffer.WriteBlob is the
\* same code)
T_WriteBlob(g, b) == T_WriteBlobN(g, PrefixClass(SLen(b)), b)

\* TypedLittleEndianBuffer.WriteString (LittleEndianBuffer.WriteString is the
\* same code): f.WriteType(TStringN); f.WriteStringN(str), which is
\* f.WriteBlobN of a slice over the bytes of str
T_WriteStringN(g, c, str) == LE_WriteBlob(LS_WriteUint(g, 1, U64(TString(c))), c, str)
T_WriteString(g, str) == T_WriteStringN(g, PrefixClass(SLen(str)), str)

\* TypedLittleEndianBuffer.ReadBlob (LittleEndianBuffer.ReadBlob is the same
\* code) into a slice of capacity cap
T_ReadBlob(g, cap) ==
    LET switch(g1, typ) ==
            IF typ \in {TBlob(c) : c \in 1..4} THEN LE_ReadBlobN(g1, typ - 16, cap)
            ELSE [g1 EXCEPT !.panic = TRUE]
        next(g1) == IF g1.panic THEN g1 ELSE switch(g1, g1.v[1])
    IN  next(LS_ReadUint(g, 1))

\* make([]byte, 1024*64), the strBuffer of ReadString for a nil strBuffer
NilBuffer == [i \in 1..8 |-> IF i = 3 THEN 1 ELSE 0]

\* TypedLittleEndianBuffer.ReadString with the strBuffer buf, which is nil or
\* has the capacity cap
T_ReadString(g, buf, behind) ==
    LET strBuffer == IF buf.nil THEN NilBuffer ELSE buf.cap
        switch(g1, typ) ==
            IF typ \in {TString(c) : c \in 1..4}
            THEN LE_ReadStringN(g1, typ - 20, strBuffer, behind)
            ELSE [g1 EXCEPT !.panic = TRUE]
        next(g1) == IF g1.panic THEN g1 ELSE switch(g1, g1.v[1])
    IN  next(LS_ReadUint(g, 1))

-----------------------------------------------------------------------------
(* The buffer under a sequence of calls: one write on a fresh buffer, the  *)
(* caller setting Pos, one read of any kind, and then raw reads and Drain  *)
(* calls in any order, each panic of an index out of range recovered by    *)
(* the caller.  tIn is the last call (op, a) and the write before it: its  *)
(* tag (0 for a raw write), where it started, and whether it returned.     *)

\* the positions a fresh buffer is written at, the positions the caller sets
\* after the write, and the largest Pos a Drain of the model moves to
LBStarts == {0, 4, 9}
LBSeeks == {0, 1, 4, 5, 9, TBufLen}
PosCap == TBufLen + 2

\* the values of the writes: an integer for each rung of WriteInt, a pattern
\* of eight different bytes that are no tag of an integer, float, blob or
\* string, and the payloads of the blobs and strings
LBInts ==
    {Neg(One), U64(200), Neg(U64(70000)), MaxUintW(3), MaxIntW(4), MaxUintW(5),
     MinIntW(6), MaxUintW(7), MinIntW(8)}
Stamp == <<27, 28, 243, 244, 245, 246, 247, 248>>
LBPayloads == {<< >>, <<1, 0, 255>>}
FixedTags == (1..16) \cup {TFloat32, TFloat64}

\* &LittleEndianBuffer{Bytes: make([]byte, TBufLen), Pos: start}
LBFresh(start) ==
    /\ tBytes = [i \in 1..TBufLen |-> 0]
    /\ tPos = start
    /\ tIn = [op |-> "new", a |-> None, tag |-> 0, start |-> start, ok |-> FALSE]
    /\ tOut = [panic |-> FALSE, v |-> None]
    /\ tPc = "start"

\* the buffer after a call returned frame f or panicked
LBDone(pc, f) ==
    /\ tBytes' = f.Bytes
    /\ tPos' = f.Pos
    /\ tOut' = [panic |-> f.panic, v |-> IF f.panic THEN None ELSE f.v]
    /\ tPc' = pc
    /\ UNCHANGED notTB

\* the write op(a) of the tag typ returned frame f or panicked
LBWrote(op, a, typ, f) ==
    /\ LBDone("written", [f EXCEPT !.v = None])
    /\ tIn' = [op |-> op, a |-> a, tag |-> typ, start |-> tPos, ok |-> ~f.panic]

\* the read op(a) returned frame f or panicked
LBRead(op, a, f) ==
    /\ LBDone("done", f)
    /\ tIn' = [tIn EXCEPT !.op = op, !.a = a]

\* buf.WriteUint8(v) .. buf.WriteUint64(v)
LBWriteUint ==
    /\ tPc = "start"
    /\ \E w \in 1..8 :
          LBWrote("WriteUint", w, 0, LE_WriteUint(TBFrame, w, Trunc(Stamp, w)))

\* buf.WriteInt(v)
LBWriteInt ==
    /\ tPc = "start"
    /\ \E v \in LBInts :
          LBWrote("WriteInt", v, tBytes'[tPos + 1], T_WriteInt(TBFrame, v))

\* the typed buf.WriteUint8(v) .. buf.WriteInt64(v), buf.WriteFloat32(v),
\* buf.WriteFloat64(v)
LBWriteTagged ==
    /\ tPc = "start"
    /\ \E typ \in FixedTags :
          LBWrote("WriteTagged", typ, typ, T_WriteTagged(TBFrame, typ, Stamp))

\* the typed buf.WriteBlob8(v) .. buf.WriteBlob32(v)
LBWriteBlobN ==
    /\ tPc = "start"
    /\ \E c \in 1..4, v \in LBPayloads :
          LBWrote("WriteBlobN", v, TBlob(c),
                  Narrow(T_WriteBlobN(Wide(TBFrame), c, Slice(v))))

\* buf.WriteType(TString8); buf.WriteString8(v) .. buf.WriteType(TString32);
\* buf.WriteString32(v)
LBWriteStringN ==
    /\ tPc = "start"
    /\ \E c \in 1..4, v \in LBPayloads :
          LBWrote("WriteStringN", v, TString(c),
                  Narrow(T_WriteStringN(Wide(TBFrame), c, Slice(v))))

\* buf.Pos = p
LBSeek ==
    /\ tPc = "written"
    /\ \E p \in LBSeeks :
          /\ tPos' = p
          /\ tIn' = [tIn EXCEPT !.op = "Seek", !.a = p]
    /\ tPc' = "sought"
    /\ UNCHANGED <<tBytes, tOut>>
    /\ UNCHANGED notTB

\* v := buf.ReadUint8() .. buf.ReadUint64()
LBReadUint ==
    /\ tPc \in {"sought", "done"}
    /\ \E w \in 1..8 : LBRead("ReadUint", w, LE_ReadUint(TBFrame, w))

\* the prefix that Drain(t) reads is at most PosCap
DrainBounded(t) ==
    LET small(f) == f.panic \/ ULe(f.v, U64(PosCap))
    IN  t \in 17..24 => small(LE_ReadUint(TBFrame, ((t - 17) % 4) + 1))

\* n := buf.Drain(t)
LBDrain ==
    /\ tPc \in {"sought", "done"}
    /\ \E t \in 0..28 :
          /\ DrainBounded(t)
          /\ LE_Drain(TBFrame, t).Pos <= PosCap
          /\ LBRead("Drain", t, LE_Drain(TBFrame, t))

\* v := buf.ReadInt()
LBReadInt ==
    /\ tPc = "sought"
    /\ LBRead("ReadInt", None, T_ReadInt(TBFrame))

\* v := buf.ReadFloat()
LBReadFloat ==
    /\ tPc = "sought"
    /\ LBRead("ReadFloat", None, T_ReadFloat(TBFrame))

\* the frame with what a read of a blob or string returned and copied
Copied(g) == [Narrow(g) EXCEPT !.v = [ret |-> g.v, data |-> g.data]]

\* the capacities of the slice a blob or string is read into
LBCaps == {U64(3)}

\* n := buf.ReadBlob(dst)
LBReadBlob ==
    /\ tPc = "sought"
    /\ \E cap \in LBCaps :
          LBRead("ReadBlob", cap, Copied(T_ReadBlob(Wide(TBFrame), cap)))

\* nil and the slices of the capacities caps
StrBuffers(caps) ==
    {[nil |-> TRUE, cap |-> Zero]} \cup {[nil |-> FALSE, cap |-> c] : c \in caps}

\* the words that can be behind vLen in memory
Behind == {U64(3), MinIntW(8)}

\* s := buf.ReadString(strBuffer)
LBReadString ==
    /\ tPc = "sought"
    /\ \E buf \in StrBuffers(LBCaps), behind \in Behind :
          LBRead("ReadString", buf, Copied(T_ReadString(Wide(TBFrame), buf, behind)))

LBNext ==
    \/ LBWriteUint \/ LBWriteInt \/ LBWriteTagged \/ LBWriteBlobN
    \/ LBWriteStringN \/ LBSeek \/ LBReadUint \/ LBDrain \/ LBReadInt
    \/ LBReadFloat \/ LBReadBlob \/ LBReadString

-----------------------------------------------------------------------------
(* The round trip of a blob or string through the typed buffer:            *)
(* buf.WriteBlob(b); buf.Pos = 0; n := buf.ReadBlob(dst), and the same     *)
(* with WriteString and ReadString.  tIn is the payload b, the write that  *)
(* was called, where it left the cursor, and the slice that is read into.  *)

\* the payloads: short ones, and at each limit of a prefix and one above it
\* zeros between two marks
BlobPayloads ==
    {Slice(<< >>), Slice(<<1, 0, 255>>)}
        \cup {Marked(MaxUintW(w)) : w \in 1..4}
        \cup {Marked(Add(MaxUintW(w), One)) : w \in 1..4}

\* the capacities of the slice that a payload of n bytes is read into
BlobCaps(n) == {n, Add(n, One)} \cup (IF n = Zero THEN {} ELSE {Sub(n, One)})

\* make([]byte, n+5), the last 3 bytes held one by one
BlobBuffer(n) == [h |-> << >>, z |-> Add(n, U64(2)), t |-> <<0, 0, 0>>]

\* &TypedLittleEndianBuffer{Bytes: make([]byte, len(b)+5)}
BlobFresh(b) ==
    /\ tBytes = BlobBuffer(SLen(b))
    /\ tPos = Zero
    /\ tIn = [b |-> b, op |-> "new", end |-> Zero,
              buf |-> [nil |-> TRUE, cap |-> Zero]]
    /\ tOut = [panic |-> FALSE, v |-> None]
    /\ tPc = "start"

\* the frame of a call on the buffer as it is
BlobFrame == [Bytes |-> tBytes, Pos |-> tPos, v |-> Zero, panic |-> FALSE,
              data |-> Slice(<< >>)]

\* the buffer after the call op returned frame g or panicked
BlobDone(op, pc, g) ==
    /\ tBytes' = g.Bytes
    /\ tPos' = g.Pos
    /\ tOut' = [panic |-> g.panic,
                v |-> IF g.panic \/ pc = "written" THEN None
                      ELSE [ret |-> g.v, data |-> g.data]]
    /\ tPc' = pc
    /\ UNCHANGED notTB

\* buf.WriteBlob(b)
BlobWriteBlob ==
    /\ tPc = "start"
    /\ BlobDone("WriteBlob", "written", T_WriteBlob(BlobFrame, tIn.b))
    /\ tIn' = [tIn EXCEPT !.op = "WriteBlob", !.end = tPos']

\* buf.WriteString(b)
BlobWriteString ==
    /\ tPc = "start"
    /\ BlobDone("WriteString", "written", T_WriteString(BlobFrame, tIn.b))
    /\ tIn' = [tIn EXCEPT !.op = "WriteString", !.end = tPos']

\* buf.Pos = 0
BlobRewind ==
    /\ tPc = "written"
    /\ tPos' = Zero
    /\ tPc' = "rewound"
    /\ UNCHANGED <<tBytes, tIn, tOut>>
    /\ UNCHANGED notTB

\* n := buf.ReadBlob(dst)
BlobReadBlob ==
    /\ tPc = "rewound"
    /\ \E cap \in BlobCaps(SLen(tIn.b)) :
          /\ BlobDone("ReadBlob", "readBlob", T_ReadBlob(BlobFrame, cap))
          /\ tIn' = [tIn EXCEPT !.buf = [nil |-> FALSE, cap |-> cap]]

\* s := buf.ReadString(strBuffer)
BlobReadString ==
    /\ tPc = "rewound"
    /\ \E buf \in StrBuffers(BlobCaps(SLen(tIn.b))), behind \in Behind :
          /\ BlobDone("ReadString", "readString",
                      T_ReadString(BlobFrame, buf, behind))
          /\ tIn' = [tIn EXCEPT !.buf = buf]

BlobNext ==
    \/ BlobWriteBlob \/ BlobWriteString \/ BlobRewind \/ BlobReadBlob
    \/ BlobReadString

-----------------------------------------------------------------------------
(* The end-to-end scenario of ExampleDataOutput: dout := NewDataOutput(o,  *)
(* writer); dout.WriteBytes(raw...); dout.WriteInt32(i);                   *)
(* dout.WriteUTF8(I8, s); dout.WriteBool(b), and then, on the bytes the    *)
(* writer took, din := NewDataInput(o, reader); din.ReadFull(buf);         *)
(* din.ReadInt32(); din.ReadUTF8(I8); din.ReadBool().  cIn is the order,   *)
(* the values written, the bytes the writer holds and the values read.     *)

\* "hello", "hello world"
Hello == <<104, 101, 108, 108, 111>>
HelloWorld == <<104, 101, 108, 108, 111, 32, 119, 111, 114, 108, 100>>

\* the values of the scenario: those of the example and a few more
ExRaws == {Slice(Hello), Slice(<<0, 255>>)}
ExInts == {U64(1234), Neg(One), MinIntW(4)}
ExStrings == {Slice(HelloWorld), Slice(<< >>)}

\* NewDataOutput(o, writer) and NewDataInput(o, reader): an Encoder and a
\* Decoder with failOnError set
ExFresh(o) ==
    /\ cIn = [o |-> o, vals |-> << >>, stream |-> Slice(<< >>), out |-> << >>]
    /\ cPc = "w1"
    /\ EncFresh(TRUE)
    /\ DecFresh(TRUE)

\* the write op of the value v returned frame e: the writer holds the bytes
\* it took
ExWrote(pc, op, v, e) ==
    /\ EncStore(op, e)
    /\ cIn' = [cIn EXCEPT !.vals = Append(@, v),
                          !.stream = Concat(@, SinkBytes(e.calls))]
    /\ cPc' = pc
    /\ UNCHANGED <<restVars, boVars, decVars, tbVars>>

\* dataOutputImpl.WriteBytes
ExWriteBytes ==
    /\ cPc = "w1"
    /\ \E raw \in ExRaws :
          ExWrote("w2", "WriteBytes", raw, E_WriteSlice(EncFrame(SinkOk), raw))

\* dataOutputImpl.WriteInt32
ExWriteInt32 ==
    /\ cPc = "w2"
    /\ \E i \in ExInts :
          ExWrote("w3", "WriteInt32", i, E_WriteInt(EncFrame(SinkOk), 4, cIn.o, i))

\* dataOutputImpl.WriteUTF8 with the prefix I8
ExWriteUTF8 ==
    /\ cPc = "w3"
    /\ \E s \in ExStrings :
          ExWrote("w4", "WriteUTF8", s, E_WriteUTF8(EncFrame(SinkOk), cIn.o, I8, s))

\* dataOutputImpl.WriteBool
ExWriteBool ==
    /\ cPc = "w4"
    /\ \E b \in BOOLEAN :
          ExWrote("r0", "WriteBool", b, E_WriteBool(EncFrame(SinkOk), b))

\* the bytes the writer holds are the source of the reader
ExPipe ==
    /\ cPc = "r0"
    /\ dSrc' = cIn.stream
    /\ cPc' = "r1"
    /\ UNCHANGED <<dBuf8, dFirstErr, dFailOnError, dOp, dReads, dRet>>
    /\ UNCHANGED <<restVars, boVars, encVars, tbVars, cIn>>

\* the read op returned frame d and the value v
ExDid(pc, op, d, v) ==
    /\ DecStore(op, d)
    /\ cIn' = [cIn EXCEPT !.out = Append(@, v)]
    /\ cPc' = pc
    /\ UNCHANGED <<restVars, boVars, encVars, tbVars>>

\* dataInputImpl.ReadFull into a buffer of the length of the raw bytes
ExReadFull ==
    /\ cPc = "r1"
    /\ LET read(d) == ExDid("r2", "ReadFull", d, d.data)
       IN  read(D_ReadFull(DecFrame(0), SLen(cIn.vals[1])))

\* dataInputImpl.ReadInt32
ExReadInt32 ==
    /\ cPc = "r2"
    /\ LET read(d) == ExDid("r3", "ReadInt32", d, d.v)
       IN  read(D_ReadInt(DecFrame(0), 4, cIn.o))

\* dataInputImpl.ReadUTF8 with the prefix I8
ExReadUTF8 ==
    /\ cPc = "r3"
    /\ LET read(d) == ExDid("r4", "ReadUTF8", d, d.data)
       IN  read(D_ReadUTF8(DecFrame(0), cIn.o, I8))

\* dataInputImpl.ReadBool
ExReadBool ==
    /\ cPc = "r4"
    /\ LET read(d) == ExDid("done", "ReadBool", d, d.v = One)
       IN  read(D_ReadBool(DecFrame(0)))

ExNext ==
    \/ ExWriteBytes \/ ExWriteInt32 \/ ExWriteUTF8 \/ ExWriteBool \/ ExPipe
    \/ ExReadFull \/ ExReadInt32 \/ ExReadUTF8 \/ ExReadBool

-----------------------------------------------------------------------------
(* ReadBlob over a source that announces more bytes than it holds: the     *)
(* source is the prefix of the length LenValues offers, in the storage     *)
(* class p, and the three bytes of LenPayload.  cIn is the order, the      *)
(* class, the length the prefix decodes to and the call of in.Read that    *)
(* failed.                                                                 *)

\* the lengths announced: small ones, MaxInt, MaxInt + 1 and MaxUint64
LenValues == {Zero, U64(2), U64(5), MaxIntW(8), MinIntW(8), Neg(One)}
LenPayload == <<7, 8, 9>>

\* the bytes of the prefix of length L in the storage class p
LenPrefix(o, p, L) ==
    IF p = IVar THEN PutUvarint(L)
    ELSE IF p = I8 THEN <<L[1]>>
    ELSE OrderPutUint(o, p, L)

\* the length a prefix of the class p holds
LenDecoded(p, L) == IF p = IVar THEN L ELSE Trunc(L, p)

\* NewDecoder(in, failOnError) over the prefix and the payload
LenFresh(o, p, L, failOnError) ==
    /\ cIn = [o |-> o, p |-> p, len |-> LenDecoded(p, L), failAt |-> 0]
    /\ cPc = "start"
    /\ dBuf8 = NewDecoder(failOnError).buf8
    /\ dFirstErr = NewDecoder(failOnError).firstErr
    /\ dFailOnError = NewDecoder(failOnError).failOnError
    /\ dSrc = Slice(LenPrefix(o, p, L) \o LenPayload)
    /\ dOp = "NewDecoder"
    /\ dReads = << >>
    /\ dRet = [v |-> Zero, data |-> Slice(<< >>), n |-> Zero, err |-> Nil,
               panic |-> FALSE]

\* Decoder.ReadBlob, the call f of in.Read failing (0 for none)
LenReadBlob ==
    /\ cPc = "start"
    /\ \E f \in FailAts :
          /\ DecStore("ReadBlob", D_ReadBlob(DecFrame(f), cIn.o, cIn.p))
          /\ cIn' = [cIn EXCEPT !.failAt = f]
    /\ cPc' = "read"
    /\ UNCHANGED <<restVars, boVars, encVars, tbVars>>

\* Decoder.Reset after the blob
LenReset ==
    /\ cPc = "read"
    /\ ~dRet.panic
    /\ dFirstErr' = Nil
    /\ dOp' = "Reset"
    /\ dReads' = << >>
    /\ dRet' = [v |-> Zero, data |-> Slice(<< >>), n |-> Zero, err |-> Nil,
                panic |-> FALSE]
    /\ cPc' = "reset"
    /\ UNCHANGED <<dBuf8, dFailOnError, dSrc>>
    /\ UNCHANGED <<restVars, boVars, encVars, tbVars, cIn>>

\* Decoder.ReadUint8 after the reset: the byte the source hands out next
LenReadUint8 ==
    /\ cPc = "reset"
    /\ DecStore("ReadUint8", D_ReadUint8(DecFrame(0)))
    /\ cPc' = "next"
    /\ UNCHANGED <<restVars, boVars, encVars, tbVars, cIn>>

LenNext == LenReadBlob \/ LenReset \/ LenReadUint8

-----------------------------------------------------------------------------
(* WriteFloat of the buffer.  A float64 is the record (neg, m, k) of the   *)
(* value (-1)^neg * m / 2^k, m a 64-bit pattern.  The values offered are   *)
(* those for which v and v * 1000 have at most 53 significant bits, so     *)
(* that the product, math.Abs and math.Modf are exact and the arithmetic   *)
(* below is the one of the float64.                                        *)

\* x << n and x >> n, for n < 64
ShlN(x, n) ==
    LET q == n \div 8
        r == 2 ^ (n % 8)
    IN  [i \in 1..8 |->
            (IF i - q >= 1 THEN (x[i - q] * r) % 256 ELSE 0)
                + (IF i - q >= 2 THEN (x[i - q - 1] * r) \div 256 ELSE 0)]
ShrN(x, n) ==
    LET q == n \div 8
        r == 2 ^ (n % 8)
    IN  [i \in 1..8 |->
            (IF i + q <= 8 THEN x[i + q] \div r ELSE 0)
                + (IF i + q <= 7 THEN (x[i + q + 1] * (256 \div r)) % 256 ELSE 0)]

\* bits.Len64(x) and bits.TrailingZeros64(x), for x # 0
BitLen(x) == CHOOSE n \in 1..64 : ShrN(x, n - 1) # Zero /\ (n = 64 \/ ShrN(x, n) = Zero)
TrailingZeros(x) ==
    CHOOSE n \in 0..63 : ShlN(ShrN(x, n), n) = x /\ (n = 63 \/ ShlN(ShrN(x, n + 1), n + 1) # x)

\* the number of significant bits of x is at most 53
Exact53(x) == x = Zero \/ BitLen(x) - TrailingZeros(x) <= 53

Float(neg, m, k) == [neg |-> neg, m |-> m, k |-> k]

\* v * 1000: 1000 = 1024 - 16 - 8
FMul1000(v) == [v EXCEPT !.m = Sub(Sub(ShlN(@, 10), ShlN(@, 4)), ShlN(@, 3))]

\* _, frac := math.Modf(math.Abs(v)), frac in units of 1 / 2^k
FFrac(v) == Sub(v.m, ShlN(ShrN(v.m, v.k), v.k))

\* the largest multiple of 1 / 2^k below epsilon = 1e-9, in units of 1 / 2^k:
\* 1e9 = 2^9 * 1953125
EpsilonUnits(k) == IF k < 9 THEN 0 ELSE (2 ^ (k - 9)) \div 1953125

\* frac < epsilon, frac > 1.0-epsilon
FracBelowEpsilon(v) == ULe(FFrac(v), U64(EpsilonUnits(v.k)))
FracAboveOneMinusEpsilon(v) ==
    ULe(Sub(ShlN(One, v.k), FFrac(v)), U64(EpsilonUnits(v.k)))

\* frac < epsilon || frac > 1.0-epsilon
LooksLikeInt(v) == FracBelowEpsilon(v) \/ FracAboveOneMinusEpsilon(v)

\* int64(v): the fraction is cut off
FToInt64(v) == IF v.neg THEN Neg(ShrN(v.m, v.k)) ELSE ShrN(v.m, v.k)

\* v <= 16777215
Float32Limit == 16777215
FLeLimit(v) == v.neg \/ ULe(v.m, ShlN(U64(Float32Limit), v.k))

\* math.Float64bits(v), for v # 0 in the normal range
Float64bits(v) ==
    LET p == BitLen(v.m) - 1
        e == p - v.k + 1023 + (IF v.neg THEN 2048 ELSE 0)
    IN  Add(ShlN(U64(e), 52), Sub(ShlN(v.m, 52 - p), Shl1(52)))

\* math.Float32bits(float32(v)), for v # 0 in the normal range: the
\* conversion rounds to 24 bits, to nearest, ties to even
Float32bits(v) ==
    LET p == BitLen(v.m) - 1
        e == p - v.k + 127 + (IF v.neg THEN 256 ELSE 0)
        s == p - 23
        q == IF s <= 0 THEN ShlN(v.m, 0 - s) ELSE ShrN(v.m, s)
        rem == IF s <= 0 THEN Zero ELSE Sub(v.m, ShlN(q, s))
        half == IF s <= 0 THEN One ELSE Shl1(s - 1)
        up == IF ULt(half, rem) \/ (rem = half /\ q[1] % 2 = 1) THEN One ELSE Zero
    IN  Add(Add(ShlN(U64(e), 23), Sub(q, Shl1(23))), up)

\* LittleEndianBuffer.WriteFloat
LE_WriteFloat(f, v) ==
    IF LooksLikeInt(v) THEN T_WriteInt(f, FToInt64(v))
    ELSE IF LooksLikeInt(FMul1000(v))
    THEN T_WriteTagged(f, TFloat32, Float32bits(v))
    ELSE T_WriteTagged(f, TFloat64, Float64bits(v))

\* TypedLittleEndianBuffer.WriteFloat: && binds tighter than ||
T_WriteFloat(f, v) ==
    IF LooksLikeInt(v) THEN T_WriteInt(f, FToInt64(v))
    ELSE IF \/ FracBelowEpsilon(FMul1000(v))
            \/ FracAboveOneMinusEpsilon(FMul1000(v)) /\ FLeLimit(v)
    THEN T_WriteTagged(f, TFloat32, Float32bits(v))
    ELSE T_WriteTagged(f, TFloat64, Float64bits(v))

\* the values written, in sixteenths: integers; halves and eighths, whose
\* thousandfold is an integer, below and above 16777215; sixteenths, whose
\* thousandfold ends in .5
Sixteenths ==
    {0, 32, 4800, 8, 24, 2, 1, 17, 268435432, 268435448, 268435457, 320000008}
\* 87 - 1/2^31 and 38 + 1/2^31 over 1000, in units of 1/2^34, and 3 - 1/2^31
FloatCandidates ==
    {Float(neg, U64(n), 4) : neg \in BOOLEAN, n \in Sixteenths}
        \cup {Float(neg, U64(n), 34) : neg \in BOOLEAN, n \in {1494648619, 652835029}}
        \cup {Float(FALSE, Sub(ShlN(U64(3), 31), One), 31)}
FloatInputs ==
    {v \in FloatCandidates : Exact53(v.m) /\ Exact53(FMul1000(v).m)}

FloatStarts == {0, 1}

\* a buffer of TBufLen bytes and the value to be written
FloatFresh(v, start) ==
    /\ tBytes = [i \in 1..TBufLen |-> 0]
    /\ tPos = start
    /\ tIn = [op |-> "new", v |-> v, tag |-> 0, start |-> start]
    /\ tOut = [panic |-> FALSE, v |-> Zero]
    /\ tPc = "start"

\* the buffer after the call op returned frame f
FloatDone(op, pc, f) ==
    /\ tBytes' = f.Bytes
    /\ tPos' = f.Pos
    /\ tOut' = [panic |-> f.panic, v |-> f.v]
    /\ tIn' = [tIn EXCEPT !.op = op, !.tag = f.Bytes[tIn.start + 1]]
    /\ tPc' = pc
    /\ UNCHANGED notTB

\* (*TypedLittleEndianBuffer).WriteFloat(v)
FloatWriteTyped ==
    /\ tPc = "start"
    /\ LET wrote(f) == FloatDone("T.WriteFloat", "written", f)
       IN  wrote(T_WriteFloat(TBFrame, tIn.v))

\* (*LittleEndianBuffer).WriteFloat(v)
FloatWriteRaw ==
    /\ tPc = "start"
    /\ LET wrote(f) == FloatDone("LE.WriteFloat", "written", f)
       IN  wrote(LE_WriteFloat(TBFrame, tIn.v))

\* buf.Pos = start
FloatRewind ==
    /\ tPc = "written"
    /\ tPos' = tIn.start
    /\ tPc' = "sought"
    /\ UNCHANGED <<tBytes, tIn, tOut>>
    /\ UNCHANGED notTB

\* buf.ReadFloat(): the bits of the number that was stored
FloatReadFloat ==
    /\ tPc = "sought"
    /\ LET read(f) == FloatDone(tIn.op, "done", f)
       IN  read(T_ReadFloat(TBFrame))

FloatNext == FloatWriteTyped \/ FloatWriteRaw \/ FloatRewind \/ FloatReadFloat

-----------------------------------------------------------------------------
(* The facade: dataInputImpl over a Decoder and dataOutputImpl over an     *)
(* Encoder, both made with failOnError = true.  A call of a facade method  *)
(* is entered, its body runs, and it returns to the caller.  cIn is the    *)
(* call: the side, the method, the number of frames of it on the stack and *)
(* the number of calls the body made on the Decoder or the Encoder.        *)

DataInputMethods ==
    {"ReadComplex64", "ReadComplex128", "ReadInt40", "ReadFloat32", "ReadFloat64",
     "ReadUint8", "ReadByte", "ReadInt8", "ReadBlob", "ReadUTF8", "ReadBool",
     "ReadUInt16", "ReadUInt24", "ReadUInt32", "ReadUInt64",
     "ReadInt16", "ReadInt24", "ReadInt32", "ReadInt64",
     "ReadUvarint", "ReadVarint", "Read", "ReadFull"}

DataOutputMethods ==
    {"WriteBytes", "WriteBlob", "WriteUTF8", "WriteBool", "WriteUint8", "WriteInt8",
     "WriteUint16", "WriteInt16", "WriteUint24", "WriteInt24", "WriteUint32",
     "WriteInt32", "WriteInt40", "WriteUint40", "WriteUint48", "WriteInt48",
     "WriteUint56", "WriteInt56", "WriteUint64", "WriteInt64", "WriteUvarint",
     "WriteVarint", "WriteFloat32", "WriteFloat64", "WriteComplex64",
     "WriteComplex128", "Write", "WriteByte"}

\* the frames the stack of a goroutine holds before the runtime ends the
\* program with "stack overflow"
StackLimit == 3

\* the number of calls the caller makes
MaxCalls == 2

\* the values the facade is called with
FacValue == Stamp
FacPayload == Slice(<<1, 2>>)
FacLen == U64(2)

\* the body of the method m of dataInputImpl, other than ReadInt40: the
\* Decoder's frame after the one call it makes
DataInputBody(m, d, o) ==
    CASE m = "ReadComplex64" -> D_ReadComplex64(d, o)
      [] m = "ReadComplex128" -> D_ReadComplex128(d, o)
      [] m = "ReadFloat32" -> D_ReadFloat32(d, o)
      [] m = "ReadFloat64" -> D_ReadFloat64(d, o)
      [] m = "ReadUint8" -> D_ReadUint8(d)
      [] m = "ReadByte" -> D_ReadByte(d)
      [] m = "ReadInt8" -> D_ReadInt8(d)
      [] m = "ReadBlob" -> D_ReadBlob(d, o, I8)
      [] m = "ReadUTF8" -> D_ReadUTF8(d, o, I8)
      [] m = "ReadBool" -> D_ReadBool(d)
      [] m = "ReadUInt16" -> D_ReadUint(d, 2, o)
      [] m = "ReadUInt24" -> D_ReadUint(d, 3, o)
      [] m = "ReadUInt32" -> D_ReadUint(d, 4, o)
      [] m = "ReadUInt64" -> D_ReadUint(d, 8, o)
      [] m = "ReadInt16" -> D_ReadInt(d, 2, o)
      [] m = "ReadInt24" -> D_ReadInt(d, 3, o)
      [] m = "ReadInt32" -> D_ReadInt(d, 4, o)
      [] m = "ReadInt64" -> D_ReadInt(d, 8, o)
      [] m = "ReadUvarint" -> D_ReadUvarint(d)
      [] m = "ReadVarint" -> D_ReadVarint(d)
      [] m = "Read" -> D_Read(d, FacLen)
      [] m = "ReadFull" -> D_ReadFull(d, FacLen)

\* the body of the method m of dataOutputImpl: the Encoder's frame after the
\* one call it makes
DataOutputBody(m, e, o) ==
    LET uint(w) == E_WriteUint(e, w, o, Trunc(FacValue, w))
        int(w) == E_WriteInt(e, w, o, SignExt(FacValue, w))
    IN  CASE m = "WriteBytes" -> E_WriteSlice(e, FacPayload)
          [] m = "WriteBlob" -> E_WriteBlob(e, o, I8, FacPayload)
          [] m = "WriteUTF8" -> E_WriteUTF8(e, o, I8, FacPayload)
          [] m = "WriteBool" -> E_WriteBool(e, TRUE)
          [] m = "WriteUint8" -> E_WriteUint8(e, Trunc(FacValue, 1))
          [] m = "WriteInt8" -> E_WriteUint8(e, Trunc(FacValue, 1))
          [] m = "WriteUint16" -> uint(2)
          [] m = "WriteInt16" -> int(2)
          [] m = "WriteUint24" -> uint(3)
          [] m = "WriteInt24" -> int(3)
          [] m = "WriteUint32" -> uint(4)
          [] m = "WriteInt32" -> int(4)
          [] m = "WriteUint40" -> uint(5)
          [] m = "WriteInt40" -> int(5)
          [] m = "WriteUint48" -> uint(6)
          [] m = "WriteInt48" -> int(6)
          [] m = "WriteUint56" -> uint(7)
          [] m = "WriteInt56" -> int(7)
          [] m = "WriteUint64" -> uint(8)
          [] m = "WriteInt64" -> int(8)
          [] m = "WriteUvarint" -> E_WriteUvarint(e, FacValue)
          [] m = "WriteVarint" -> E_WriteVarint(e, FacValue)
          [] m = "WriteFloat32" -> E_WriteFloat32(e, o, Trunc(FacValue, 4))
          [] m = "WriteFloat64" -> E_WriteFloat64(e, o, FacValue)
          [] m = "WriteComplex64" ->
                E_WriteComplex64(e, o, Trunc(FacValue, 4), Trunc(FacValue, 4))
          [] m = "WriteComplex128" -> E_WriteComplex128(e, o, FacValue, FacValue)
          [] m = "Write" -> E_Write(e, FacPayload)
          [] m = "WriteByte" -> E_WriteByte(e, ByteAt(FacValue, 0))

\* NewDataInput(o, reader) for the side "in", NewDataOutput(o, writer) for
\* the side "out"; no call is running
FacFresh(o, side) ==
    /\ cIn = [o |-> o, side |-> side, calls |-> 0, method |-> "none", depth |-> 0,
              delegated |-> 0]
    /\ cPc = "idle"
    /\ EncFresh(TRUE)
    /\ DecFresh(TRUE)

\* the caller calls the method m of the DataInput or of the DataOutput
FacCall ==
    /\ cPc = "idle"
    /\ cIn.calls < MaxCalls
    /\ \E m \in IF cIn.side = "in" THEN DataInputMethods ELSE DataOutputMethods :
          cIn' = [cIn EXCEPT !.calls = @ + 1, !.method = m, !.depth = 1,
                             !.delegated = 0]
    /\ cPc' = "running"
    /\ UNCHANGED <<restVars, boVars, encVars, decVars, tbVars>>

\* return d.decoder.M(...)
FacReadBody ==
    /\ cPc = "running"
    /\ cIn.side = "in"
    /\ cIn.method # "ReadInt40"
    /\ DecStore(cIn.method, DataInputBody(cIn.method, DecFrame(0), cIn.o))
    /\ cIn' = [cIn EXCEPT !.delegated = @ + 1, !.depth = @ - 1]
    /\ cPc' = "returned"
    /\ UNCHANGED <<restVars, boVars, encVars, tbVars>>

\* d.encoder.M(...)
FacWriteBody ==
    /\ cPc = "running"
    /\ cIn.side = "out"
    /\ EncStore(cIn.method, DataOutputBody(cIn.method, EncFrame(SinkOk), cIn.o))
    /\ cIn' = [cIn EXCEPT !.delegated = @ + 1, !.depth = @ - 1]
    /\ cPc' = "returned"
    /\ UNCHANGED <<restVars, boVars, decVars, tbVars>>

\* dataInputImpl.ReadInt40: return d.ReadInt40(), one more frame of it
FacReadInt40 ==
    /\ cPc = "running"
    /\ cIn.side = "in"
    /\ cIn.method = "ReadInt40"
    /\ cIn.depth < StackLimit
    /\ cIn' = [cIn EXCEPT !.depth = @ + 1]
    /\ UNCHANGED <<restVars, boVars, encVars, decVars, tbVars, cPc>>

\* the stack is full: the runtime ends the program, "stack overflow"
FacStackOverflow ==
    /\ cPc = "running"
    /\ cIn.depth = StackLimit
    /\ cPc' = "fatal"
    /\ UNCHANGED <<restVars, boVars, encVars, decVars, tbVars, cIn>>

\* the caller goes on
FacReturn ==
    /\ cPc = "returned"
    /\ cPc' = "idle"
    /\ UNCHANGED <<restVars, boVars, encVars, decVars, tbVars, cIn>>

FacNext ==
    \/ FacCall \/ FacReadBody \/ FacWriteBody \/ FacReadInt40
    \/ FacStackOverflow \/ FacReturn

-----------------------------------------------------------------------------
(* HashReader: a reader that hashes what it hands on.  The wrapped reader  *)
(* is any io.Reader over the bytes of hReader: a Read into a buffer of L   *)
(* bytes hands out between 1 and L of them, with the last of them it may   *)
(* report io.EOF at once, and it may fail.  The hasher is a hash.Hash,     *)
(* whose Write takes all bytes and never returns an error.                 *)

HRSources == {<<1, 2, 3, 4>>, <<5>>, <<6, 7, 8>>}
\* len(p) of the calls of Read
HRLens == 0..3

\* NewHashReader(h, reader)
HRFresh(src) ==
    /\ hCount = 0
    /\ hHasher = << >>
    /\ hReader = src
    /\ hReturned = 0
    /\ hRet = [op |-> "NewHashReader", n |-> 0, err |-> Nil]

\* n, err = h.reader.Read(p) for len(p) = L: the outcomes n, err
ReaderOutcomes(L) ==
    LET most == IF L < Len(hReader) THEN L ELSE Len(hReader)
    IN  IF L = 0 THEN {[n |-> 0, err |-> Nil]}
        ELSE {[n |-> 0, err |-> IOErr("errA")]}
                 \cup (IF hReader = << >> THEN {[n |-> 0, err |-> EOF]}
                       ELSE {[n |-> k, err |-> Nil] : k \in 1..most}
                                \cup (IF most = Len(hReader)
                                      THEN {[n |-> most, err |-> EOF]} ELSE {}))

\* HashReader.Read(p): n2, err2 := h.hasher.Write(p[0:n]) gives n, nil, so
\* n and err of the reader are returned
HRRead ==
    /\ \E L \in HRLens :
          \E r \in ReaderOutcomes(L) :
              /\ hHasher' = hHasher \o SubSeq(hReader, 1, r.n)
              /\ hReader' = SubSeq(hReader, r.n + 1, Len(hReader))
              /\ hReturned' = hReturned + r.n
              /\ hRet' = [op |-> "Read", n |-> r.n, err |-> r.err]
    /\ UNCHANGED hCount
    /\ UNCHANGED <<boVars, encVars, decVars, tbVars, codecVars, bsVars, goVars>>

\* HashReader.Count()
HRCount ==
    /\ hRet' = [op |-> "Count", n |-> hCount, err |-> Nil]
    /\ UNCHANGED <<hCount, hHasher, hReader, hReturned>>
    /\ UNCHANGED <<boVars, encVars, decVars, tbVars, codecVars, bsVars, goVars>>

\* HashReader.Reset(): h.count = 0; h.hasher.Reset()
HRReset ==
    /\ hCount' = 0
    /\ hHasher' = << >>
    /\ hReturned' = 0
    /\ hRet' = [op |-> "Reset", n |-> 0, err |-> Nil]
    /\ UNCHANGED hReader
    /\ UNCHANGED <<boVars, encVars, decVars, tbVars, codecVars, bsVars, goVars>>

HRNext == HRRead \/ HRCount \/ HRReset

-----------------------------------------------------------------------------
(* ByteSeeker: a buffer in memory that is read, written and sought *)

\* &ByteSeeker{}
BSFresh ==
    /\ bBuf = << >>
    /\ bCap = 0
    /\ bPos = 0
    /\ bRet = [op |-> "new", a1 |-> 0, a2 |-> 0, n |-> 0, err |-> Nil,
               data |-> << >>, panic |-> FALSE]

\* the frame of a call on the ByteSeeker as it is; data is the caller's p
BSFrame ==
    [buf |-> bBuf, cap |-> bCap, pos |-> bPos, n |-> 0, err |-> Nil,
     data |-> << >>, panic |-> FALSE]

\* Read that moves the position behind the bytes it copied
BS_ReadAdvancing(b, L) ==
    LET atMost == IF b.pos + L > Len(b.buf) THEN Len(b.buf) - b.pos ELSE L
    IN  IF b.pos = Len(b.buf) - 1 /\ L > 0
        THEN [b EXCEPT !.n = 0, !.err = EOF, !.data = [i \in 1..L |-> 0]]
        ELSE IF atMost < 0 THEN [b EXCEPT !.panic = TRUE]
        ELSE [b EXCEPT !.n = atMost,
                       !.pos = @ + atMost,
                       !.data = [i \in 1..L |-> IF i <= atMost THEN b.buf[b.pos + i]
                                                ELSE 0]]

\* ByteSeeker.Read(p) for a zeroed p of L bytes: p[:atMost] panics for a
\* negative atMost
BS_Read(b, L) ==
    LET atMost == IF b.pos + L > Len(b.buf) THEN Len(b.buf) - b.pos ELSE L
    IN  IF b.pos = Len(b.buf) - 1 /\ L > 0
        THEN [b EXCEPT !.n = 0, !.err = EOF, !.data = [i \in 1..L |-> 0]]
        ELSE IF atMost < 0 THEN [b EXCEPT !.panic = TRUE]
        ELSE [b EXCEPT !.n = atMost,
                       !.data = [i \in 1..L |-> IF i <= atMost THEN b.buf[b.pos + i]
                                                ELSE 0]]

\* ByteSeeker.ensureBuffer(size): newCap is the larger of size and len(b.buf)
BS_ensureBuffer(b, size) ==
    LET newCap == IF size > Len(b.buf) THEN size ELSE Len(b.buf)
        grown == IF size > b.cap THEN [b EXCEPT !.cap = newCap] ELSE b
    IN  IF size > Len(grown.buf)
        THEN [grown EXCEPT !.buf = [i \in 1..size |->
                                       IF i <= Len(b.buf) THEN b.buf[i] ELSE 0]]
        ELSE grown

\* ByteSeeker.Write(p)
BS_Write(b, p) ==
    LET copied(b1) ==
            [b1 EXCEPT !.buf = [i \in 1..Len(b1.buf) |->
                                   IF i > b.pos /\ i <= b.pos + Len(p)
                                   THEN p[i - b.pos] ELSE b1.buf[i]],
                       !.pos = @ + Len(p),
                       !.n = Len(p)]
    IN  copied(BS_ensureBuffer(b, b.pos + Len(p)))

SeekStart == 0
SeekCurrent == 1
SeekEnd == 2

\* the target of Seek(offset, whence): 0 for a whence that is none of the three
SeekTarget(b, offset, whence) ==
    CASE whence = SeekStart -> offset
      [] whence = SeekCurrent -> b.pos + offset
      [] whence = SeekEnd -> Len(b.buf) + offset
      [] OTHER -> 0

\* ByteSeeker.Seek(offset, whence)
BS_Seek(b, offset, whence) ==
    LET newPos == SeekTarget(b, offset, whence)
        moved(b1) == [b1 EXCEPT !.pos = newPos, !.n = newPos]
    IN  IF newPos < 0 THEN [b EXCEPT !.pos = 0, !.n = 0, !.err = EOF]
        ELSE moved(BS_ensureBuffer(b, newPos))

\* the buffer is kept below this length
BSMaxLen == 4
\* what the ByteSeeker is called with
BSLens == 0..3
BSPayloads == {<< >>, <<9>>, <<8, 7>>}
BSOffsets == (0 - 2)..3
BSWhences == 0..3

\* the ByteSeeker after the call op(a1, a2) returned frame b or panicked
BSDone(op, a1, a2, b) ==
    /\ bBuf' = b.buf
    /\ bCap' = b.cap
    /\ bPos' = b.pos
    /\ bRet' = [op |-> op, a1 |-> a1, a2 |-> a2, n |-> b.n, err |-> b.err,
                data |-> b.data, panic |-> b.panic]
    /\ UNCHANGED <<boVars, encVars, decVars, tbVars, codecVars, hrVars, goVars>>

BSRead ==
    /\ ~bRet.panic
    /\ \E L \in BSLens : BSDone("Read", L, 0, BS_Read(BSFrame, L))

BSWrite ==
    /\ ~bRet.panic
    /\ \E p \in BSPayloads :
          /\ bPos + Len(p) <= BSMaxLen
          /\ BSDone("Write", Len(p), 0, BS_Write(BSFrame, p))

BSSeek ==
    /\ ~bRet.panic
    /\ \E offset \in BSOffsets, whence \in BSWhences :
          /\ SeekTarget(BSFrame, offset, whence) <= BSMaxLen
          /\ BSDone("Seek", offset, whence, BS_Seek(BSFrame, offset, whence))

BSNext == BSRead \/ BSWrite \/ BSSeek

-----------------------------------------------------------------------------
(* Two callers of Encoder.WriteUint16, each a goroutine of its own, on one *)
(* Encoder or on an Encoder each.  Nothing orders the accesses of the two  *)
(* callers to buf10, so the stores of PutUint16 and the loads the sink     *)
(* makes in out.Write interleave byte by byte.  The sink takes all bytes   *)
(* and returns no error, so firstErr stays nil and quickFail is false.     *)

Callers == 1..2
\* the values passed: 0x0102 and 0x0304
GoValues == {U64(258), U64(772)}

\* every caller on Encoder 1
EncoderOfShared(i) == 1

\* the Encoder the caller i calls: NewEncoder once, or once for each caller
EncoderOf(i) == IF gIn.shared THEN 1 ELSE i

\* the bytes of the caller's value in the order passed
GoEncoding(i) == OrderPutUint(gIn.o, 2, gIn.v[i])

GoIdle ==
    /\ gIn = [shared |-> FALSE, o |-> LittleEndian, v |-> <<Zero, Zero>>]
    /\ gBuf10 = [e \in Callers |-> NewEncoder(FALSE).buf10]
    /\ gPc = [i \in Callers |-> "idle"]
    /\ gSent = [i \in Callers |-> << >>]

GoFresh(shared, o, a, b) ==
    /\ gIn = [shared |-> shared, o |-> o, v |-> <<a, b>>]
    /\ gBuf10 = [e \in Callers |-> NewEncoder(FALSE).buf10]
    /\ gPc = [i \in Callers |-> "call"]
    /\ gSent = [i \in Callers |-> << >>]

GoStep(i, pc) ==
    /\ gPc' = [gPc EXCEPT ![i] = pc]
    /\ UNCHANGED <<gIn, boVars, encVars, decVars, tbVars, codecVars, hrVars, bsVars>>

\* tmp := e.buf10[:2]
GoSlice ==
    \E i \in Callers :
        /\ gPc[i] = "call"
        /\ GoStep(i, "put0")
        /\ UNCHANGED <<gBuf10, gSent>>

\* PutUint16: b[0] = ...
GoPut0 ==
    \E i \in Callers :
        /\ gPc[i] = "put0"
        /\ gBuf10' = [gBuf10 EXCEPT ![EncoderOf(i)][1] = GoEncoding(i)[1]]
        /\ GoStep(i, "put1")
        /\ UNCHANGED gSent

\* PutUint16: b[1] = ...
GoPut1 ==
    \E i \in Callers :
        /\ gPc[i] = "put1"
        /\ gBuf10' = [gBuf10 EXCEPT ![EncoderOf(i)][2] = GoEncoding(i)[2]]
        /\ GoStep(i, "write")
        /\ UNCHANGED gSent

\* e.WriteSlice(tmp): quickFail is false; e.out.Write(tmp), the sink loading
\* tmp[0]
GoWrite0 ==
    \E i \in Callers :
        /\ gPc[i] = "write"
        /\ gSent' = [gSent EXCEPT ![i] = <<gBuf10[EncoderOf(i)][1]>>]
        /\ GoStep(i, "load1")
        /\ UNCHANGED gBuf10

\* the sink loading tmp[1]; it returns (2, nil), noteErr(nil) stores nothing
GoWrite1 ==
    \E i \in Callers :
        /\ gPc[i] = "load1"
        /\ gSent' = [gSent EXCEPT ![i] = Append(@, gBuf10[EncoderOf(i)][2])]
        /\ GoStep(i, "done")
        /\ UNCHANGED gBuf10

GoNext == GoSlice \/ GoPut0 \/ GoPut1 \/ GoWrite0 \/ GoWrite1

\* no HashReader, no ByteSeeker and no concurrent caller is in use
RestIdle == HRFresh(<< >>) /\ BSFresh /\ GoIdle

-----------------------------------------------------------------------------
(* The Encoder and its sink: what reaches the sink in each call.  Any      *)
(* sequence of writes on one Encoder, the sink answering each of its calls *)
(* with all bytes taken, a short count or an error.  cIn is the write made *)
(* last: the method, its width or storage class, and firstErr as it was    *)
(* before the call.                                                        *)

OutOrders == {LittleEndian}
\* the signed writes made: WriteInt8, WriteInt24 and WriteInt64, one for each
\* conversion to the unsigned type
OutIntWidths == {1, 3, 8}
\* a payload that fits every prefix, and one that is too long for I8
OutPayload == Slice(<<1, 2>>)
OutTooLong == Zeros(U64(256))

\* the number of calls made on one Encoder
MaxWrites == 2

\* the sink's answers to the calls of a write that calls it once
OutResp1 == {<<r>> : r \in SinkResponses \ {[kind |-> "fail", err |-> IOErr("errB")]}}
\* the sink's answers to the calls of a write that calls it up to twice
OutResp2 == {r1 \o <<r2>> : r1 \in OutResp1,
                              r2 \in {[kind |-> "ok", err |-> Nil],
                                       [kind |-> "fail", err |-> IOErr("errB")]}}

OutFresh(failOnError) ==
    /\ cIn = [op |-> "NewEncoder", w |-> 0, len |-> Zero, before |-> Nil, writes |-> 0]
    /\ cPc = "start"
    /\ EncFresh(failOnError)

\* the Encoder after the write op of the width or class w returned frame e
OutWrote(op, w, len, frame) ==
    /\ \E e \in {frame} : EncStore(op, e)
    /\ cIn' = [op |-> op, w |-> w, len |-> len, before |-> eFirstErr,
               writes |-> cIn.writes + 1]
    /\ cPc' = "written"
    /\ UNCHANGED <<restVars, boVars, decVars, tbVars>>

\* Encoder.WriteUint8 .. WriteUint64 and WriteInt8 .. WriteInt64
OutWriteFixed ==
    /\ cPc \in {"start", "written"}
    /\ cIn.writes < MaxWrites
    /\ \E o \in OutOrders, rs \in OutResp1 :
          \/ \E w \in 1..8 :
                OutWrote("WriteUint", w, Zero,
                         IF w = 1 THEN E_WriteUint8(EncFrame(rs), Trunc(Stamp, 1))
                         ELSE E_WriteUint(EncFrame(rs), w, o, Trunc(Stamp, w)))
          \/ \E w \in OutIntWidths :
                OutWrote("WriteInt", w, Zero,
                         IF w = 1 THEN E_WriteUint8(EncFrame(rs), Trunc(Stamp, 1))
                         ELSE E_WriteInt(EncFrame(rs), w, o, SignExt(Stamp, w)))

\* Encoder.WriteFloat32, WriteFloat64
OutWriteFloat ==
    /\ cPc \in {"start", "written"}
    /\ cIn.writes < MaxWrites
    /\ \E o \in OutOrders, rs \in OutResp1 :
          \/ OutWrote("WriteFloat", 4, Zero, E_WriteFloat32(EncFrame(rs), o, Trunc(Stamp, 4)))
          \/ OutWrote("WriteFloat", 8, Zero, E_WriteFloat64(EncFrame(rs), o, Stamp))

\* Encoder.WriteComplex64, WriteComplex128
OutWriteComplex ==
    /\ cPc \in {"start", "written"}
    /\ cIn.writes < MaxWrites
    /\ \E o \in OutOrders, rs \in OutResp2 :
          \/ OutWrote("WriteComplex", 8, Zero,
                      E_WriteComplex64(EncFrame(rs), o, Trunc(Stamp, 4), Trunc(Stamp, 4)))
          \/ OutWrote("WriteComplex", 16, Zero,
                      E_WriteComplex128(EncFrame(rs), o, Stamp, Stamp))

\* Encoder.WriteUvarint, WriteVarint
OutWriteVarint ==
    /\ cPc \in {"start", "written"}
    /\ cIn.writes < MaxWrites
    /\ \E rs \in OutResp1 :
          \/ OutWrote("WriteUvarint", IVar, Zero, E_WriteUvarint(EncFrame(rs), Stamp))
          \/ OutWrote("WriteVarint", IVar, Zero, E_WriteVarint(EncFrame(rs), Stamp))

\* Encoder.WriteBlob, WriteUTF8
OutWriteBlob ==
    /\ cPc \in {"start", "written"}
    /\ cIn.writes < MaxWrites
    /\ \E o \in OutOrders :
          \/ \E p \in IntSizes, rs \in OutResp2 :
                OutWrote("WriteBlob", p, SLen(OutPayload), E_WriteBlob(EncFrame(rs), o, p, OutPayload))
          \/ \E rs \in OutResp2 :
                OutWrote("WriteUTF8", I16, SLen(OutPayload), E_WriteUTF8(EncFrame(rs), o, I16, OutPayload))
          \/ \E rs \in OutResp1 :
                \/ OutWrote("WriteBlob", I8, SLen(OutTooLong), E_WriteBlob(EncFrame(rs), o, I8, OutTooLong))
                \/ OutWrote("WriteUTF8", I8, SLen(OutTooLong), E_WriteUTF8(EncFrame(rs), o, I8, OutTooLong))

\* Encoder.WriteSlice, Write, WriteByte
OutWriteRaw ==
    /\ cPc \in {"start", "written"}
    /\ cIn.writes < MaxWrites
    /\ \E rs \in OutResp1 :
          \/ OutWrote("WriteSlice", 2, Zero, E_WriteSlice(EncFrame(rs), Slice(<<1, 2>>)))
          \/ OutWrote("Write", 2, Zero, E_Write(EncFrame(rs), Slice(<<1, 2>>)))
          \/ OutWrote("WriteByte", 1, Zero, E_WriteByte(EncFrame(rs), 1))

\* Encoder.Reset
OutReset ==
    /\ cPc = "written"
    /\ cIn.writes < MaxWrites
    /\ eFirstErr # Nil
    /\ eFirstErr' = Nil
    /\ eOp' = "Reset"
    /\ eCalls' = << >>
    /\ eRet' = [n |-> Zero, err |-> Nil]
    /\ cIn' = [op |-> "Reset", w |-> 0, len |-> Zero, before |-> eFirstErr,
               writes |-> cIn.writes + 1]
    /\ UNCHANGED <<eBuf10, eFailOnError, cPc>>
    /\ UNCHANGED <<restVars, boVars, decVars, tbVars>>

OutNext ==
    \/ OutWriteFixed \/ OutWriteFloat \/ OutWriteComplex \/ OutWriteVarint
    \/ OutWriteBlob \/ OutWriteRaw \/ OutReset

-----------------------------------------------------------------------------
(* The fixed-type writes and reads of the typed buffer.  The reads go      *)
(* through assertType, which looks at the package's debug flag; the flag   *)
(* is set by the build, so a buffer is observed under either value.        *)

\* the bytes of the value behind a tag of a fixed width
TagWidth(typ) ==
    IF typ \in 1..8 THEN typ ELSE IF typ \in 9..16 THEN typ - 8
    ELSE IF typ = TFloat32 THEN 4 ELSE 8

\* an assertType that reads and checks the tag whatever debug is
T_assertTypeAlways(f, kind, dbg) ==
    LET check(x) == IF x.panic THEN x
                    ELSE IF x.v[1] # kind THEN [x EXCEPT !.panic = TRUE]
                    ELSE x
    IN  check(LE_ReadType(f))

\* TypedLittleEndianBuffer.assertType:
\* if debug { x := f.ReadType(); if x != kind { panic(...) } }
T_assertType(f, kind, dbg) ==
    LET check(x) == IF x.panic THEN x
                    ELSE IF x.v[1] # kind THEN [x EXCEPT !.panic = TRUE]
                    ELSE x
    IN  IF dbg THEN check(LE_ReadType(f)) ELSE f

\* TypedLittleEndianBuffer.ReadUint8 .. ReadInt64, ReadFloat32, ReadFloat64:
\* t.assertType(typ); return f.ReadUintW(), converted for the signed reads:
\* int8(uint8), int16(uint16), int32(uint32) for 24 and 32 bit, int64(uint64)
T_ReadTagged(f, typ, dbg) ==
    LET conv(f2) == IF f2.panic \/ typ \notin 9..16 THEN f2
                    ELSE [f2 EXCEPT !.v = SignExt(@, IF typ = TInt(3) THEN 4 ELSE typ - 8)]
    IN  conv(LE_ReadUint(T_assertType(f, typ, dbg), TagWidth(typ)))

\* TypedLittleEndianBuffer.ReadBlob8 .. ReadBlob32 into a slice of capacity
\* cap: t.assertType(TBlobN); return f.ReadBlobN(dst)
T_ReadBlobN(f, c, cap, dbg) ==
    LET blob(f1) == IF f1.panic THEN Wide(f1) ELSE LE_ReadBlobN(Wide(f1), c, cap)
    IN  blob(T_assertType(f, TBlob(c), dbg))

\* the tags the typed buffer has a write for, and those it has a read for
TFWriteTypes == 1..16 \cup {TFloat32, TFloat64}
TFReadTypes ==
    {TUint(w) : w \in {1, 2, 3, 4, 8}} \cup {TInt(w) : w \in {1, 2, 3, 4, 8}}
        \cup {TFloat32, TFloat64}

\* the values written under a tag: the limits of its width, a value of
\* different bytes and the value whose bytes are all the tag
TFValues(typ) ==
    {Trunc(v, TagWidth(typ)) :
        v \in {One, Stamp, MaxUintW(8), [i \in 1..8 |-> typ]}}
TFPayloads == {Slice(<< >>), Slice(<<7, 8>>)}
TFCaps == {Zero, U64(2), U64(300)}

\* &TypedLittleEndianBuffer{Bytes: make([]byte, TBufLen), Pos: start}
TFFresh(dbg, start) ==
    /\ tBytes = [i \in 1..TBufLen |-> 0]
    /\ tPos = start
    /\ tIn = [debug |-> dbg, wtyp |-> 0, v |-> Zero, b |-> Slice(<< >>),
              start |-> start, end |-> start, rtyp |-> 0]
    /\ tOut = [panic |-> FALSE, v |-> Zero, data |-> << >>]
    /\ tPc = "start"

\* the buffer after a call returned frame f
TFDone(pc, f, data) ==
    /\ tBytes' = f.Bytes
    /\ tPos' = f.Pos
    /\ tOut' = [panic |-> f.panic, v |-> IF f.panic THEN Zero ELSE f.v,
                data |-> IF f.panic THEN << >> ELSE data]
    /\ tPc' = pc
    /\ UNCHANGED notTB

\* buf.WriteUint8(v) .. buf.WriteInt64(v), buf.WriteFloat32(v), buf.WriteFloat64(v)
TFWriteTagged ==
    /\ tPc = "start"
    /\ \E typ \in TFWriteTypes :
          \E v \in TFValues(typ) :
             /\ TFDone("written", [T_WriteTagged(TBFrame, typ, v) EXCEPT !.v = Zero], << >>)
             /\ tIn' = [tIn EXCEPT !.wtyp = typ, !.v = v]

\* buf.WriteBlob8(b) .. buf.WriteBlob32(b)
TFWriteBlob ==
    /\ tPc = "start"
    /\ \E c \in 1..4, b \in TFPayloads :
          /\ TFDone("written", [Narrow(T_WriteBlobN(Wide(TBFrame), c, b)) EXCEPT !.v = Zero],
                    << >>)
          /\ tIn' = [tIn EXCEPT !.wtyp = TBlob(c), !.b = b]

\* end := buf.Pos; buf.Pos = start
TFRewind ==
    /\ tPc = "written"
    /\ ~tOut.panic
    /\ tIn' = [tIn EXCEPT !.end = tPos]
    /\ tPos' = tIn.start
    /\ tPc' = "rewound"
    /\ UNCHANGED <<tBytes, tOut>>
    /\ UNCHANGED notTB

\* buf.ReadUint8() .. buf.ReadInt64(), buf.ReadFloat32(), buf.ReadFloat64()
TFReadTagged ==
    /\ tPc = "rewound"
    /\ \E typ \in TFReadTypes :
          /\ TFDone("read", T_ReadTagged(TBFrame, typ, tIn.debug), << >>)
          /\ tIn' = [tIn EXCEPT !.rtyp = typ]

\* buf.ReadBlob8(dst) .. buf.ReadBlob32(dst)
TFReadBlob ==
    /\ tPc = "rewound"
    /\ \E c \in 1..4, cap \in TFCaps :
          \E g \in {T_ReadBlobN(TBFrame, c, cap, tIn.debug)} :
             /\ TFDone("read", Narrow(g), Explicit(g.data))
             /\ tIn' = [tIn EXCEPT !.rtyp = TBlob(c)]

TFNext == TFWriteTagged \/ TFWriteBlob \/ TFRewind \/ TFReadTagged \/ TFReadBlob

-----------------------------------------------------------------------------
(* The specifications *)

\* An Encoder and a Decoder that are constructed and never used accompany the
\* byte order operations; likewise below for the components a specification
\* leaves alone.
InitByteOrder ==
    \E f \in {FALSE} : BOInit /\ RestIdle /\ EncFresh(f) /\ DecFresh(f) /\ TBFresh(0) /\ CodecFresh
SpecByteOrder == InitByteOrder /\ [][BONext]_vars

InitEncoder ==
    \E f \in BOOLEAN : EncFresh(f) /\ BOInit /\ RestIdle /\ DecFresh(FALSE) /\ TBFresh(0) /\ CodecFresh
SpecEncoder == InitEncoder /\ [][EncNext]_vars

InitDecoder ==
    \E f \in BOOLEAN : DecFresh(f) /\ BOInit /\ RestIdle /\ EncFresh(FALSE) /\ TBFresh(0) /\ CodecFresh
SpecDecoder == InitDecoder /\ [][DecNext]_vars

InitTypedBuffer ==
    \E start \in TStarts :
        TBFresh(start) /\ BOInit /\ RestIdle /\ EncFresh(FALSE) /\ DecFresh(FALSE) /\ CodecFresh
SpecTypedBuffer == InitTypedBuffer /\ [][TBNext]_vars

InitCodec ==
    \E f \in BOOLEAN :
        CodecFresh /\ EncFresh(f) /\ DecFresh(f) /\ BOInit /\ RestIdle /\ TBFresh(0)
SpecCodec == InitCodec /\ [][CodecNext]_vars

SpecVarint == InitCodec /\ [][VarNext]_vars

InitBuffer ==
    \E start \in LBStarts :
        LBFresh(start) /\ BOInit /\ RestIdle /\ EncFresh(FALSE) /\ DecFresh(FALSE) /\ CodecFresh
SpecBuffer == InitBuffer /\ [][LBNext]_vars

InitBlob ==
    \E b \in BlobPayloads :
        BlobFresh(b) /\ BOInit /\ RestIdle /\ EncFresh(FALSE) /\ DecFresh(FALSE) /\ CodecFresh
SpecBlob == InitBlob /\ [][BlobNext]_vars

InitExample ==
    \E o \in ByteOrders : ExFresh(o) /\ BOInit /\ RestIdle /\ TBFresh(0)
SpecExample == InitExample /\ [][ExNext]_vars

InitLength ==
    \E o \in ByteOrders, p \in IntSizes, L \in LenValues, f \in BOOLEAN :
        LenFresh(o, p, L, f) /\ BOInit /\ RestIdle /\ EncFresh(FALSE) /\ TBFresh(0)
SpecLength == InitLength /\ [][LenNext]_vars

InitFloat ==
    \E v \in FloatInputs, start \in FloatStarts :
        FloatFresh(v, start) /\ BOInit /\ RestIdle /\ EncFresh(FALSE) /\ DecFresh(FALSE) /\ CodecFresh
SpecFloat == InitFloat /\ [][FloatNext]_vars

InitFacade ==
    \E o \in ByteOrders, side \in {"in", "out"} :
        FacFresh(o, side) /\ BOInit /\ RestIdle /\ TBFresh(0)
SpecFacade == InitFacade /\ [][FacNext]_vars

InitHashReader ==
    \E src \in HRSources :
        HRFresh(src) /\ BSFresh /\ GoIdle /\ BOInit /\ EncFresh(FALSE) /\ DecFresh(FALSE)
            /\ TBFresh(0) /\ CodecFresh
SpecHashReader == InitHashReader /\ [][HRNext]_vars

InitByteSeeker ==
    \E f \in {FALSE} :
        BSFresh /\ HRFresh(<< >>) /\ GoIdle /\ BOInit /\ EncFresh(f) /\ DecFresh(f)
            /\ TBFresh(0) /\ CodecFresh
SpecByteSeeker == InitByteSeeker /\ [][BSNext]_vars

InitSink ==
    \E f \in BOOLEAN : OutFresh(f) /\ DecFresh(FALSE) /\ BOInit /\ RestIdle /\ TBFresh(0)
SpecSink == InitSink /\ [][OutNext]_vars

InitConcurrent ==
    \E shared \in BOOLEAN, o \in ByteOrders, a \in GoValues, b \in GoValues :
        GoFresh(shared, o, a, b) /\ HRFresh(<< >>) /\ BSFresh /\ BOInit /\ EncFresh(FALSE)
            /\ DecFresh(FALSE) /\ TBFresh(0) /\ CodecFresh
SpecConcurrent == InitConcurrent /\ [][GoNext]_vars

InitTagged ==
    \E dbg \in BOOLEAN, start \in TStarts :
        TFFresh(dbg, start) /\ BOInit /\ RestIdle /\ EncFresh(FALSE) /\ DecFresh(FALSE)
            /\ CodecFresh
SpecTagged == InitTagged /\ [][TFNext]_vars

-----------------------------------------------------------------------------
\* C4: for each width of 16 .. 64 bit, both byte orders and every unsigned
\* value v of that width (the maximum included), PutUintW(buf, v) followed by
\* UintW(buf) on a buffer of W/8 bytes returns v.
C4_RoundTrip ==
    boPc = "got" => /\ boOut = boIn.v
                    /\ Len(boBuf) = boIn.w

\* the maximum of a 40 bit value went through the big endian conversions
C4_Witness ==
    /\ boPc = "got"
    /\ boIn.o = BigEndian
    /\ boIn.w = 5
    /\ boIn.v = MaxUintW(5)
    /\ boOut = MaxUintW(5)

-----------------------------------------------------------------------------
\* C1: on an Encoder created with failOnError=true, once an error is recorded
\* and until Reset is called, every write operation makes no call to the sink
\* and leaves the recorded error unchanged.
C1_NoOpAfterError ==
    [][(eFailOnError /\ eFirstErr # Nil /\ eOp' # "Reset")
            => (eCalls' = << >> /\ eFirstErr' = eFirstErr)]_vars

\* a WriteBlob returned without a call to the sink, the error of an earlier
\* sink failure still recorded
C1_Witness ==
    /\ eFailOnError
    /\ eOp = "WriteBlob"
    /\ eCalls = << >>
    /\ eFirstErr = IOErr("errA")

\* the sink calls of one write that returned an error, and those that took
\* fewer bytes than they were given
FailedCalls(calls) == {i \in DOMAIN calls : calls[i].err # Nil}
ShortCalls(calls) == {i \in DOMAIN calls : calls[i].n # SLen(calls[i].p)}
FirstOf(S) == CHOOSE i \in S : \A j \in S : i <= j

\* C2: Error() is the error of the earliest failing write since creation or
\* the last Reset, never a later one, with and without failOnError; Reset sets
\* it to nil, and the write after a Reset is forwarded to the sink and leaves
\* no error when the sink accepts it.
C2_EarliestError ==
    [][/\ (eOp' # "Reset" /\ eFirstErr # Nil) => eFirstErr' = eFirstErr
       /\ (eOp' # "Reset" /\ eFirstErr = Nil /\ FailedCalls(eCalls') # {}) =>
             LET i == FirstOf(FailedCalls(eCalls'))
             IN  \/ eFirstErr' = eCalls'[i].err
                 \/ /\ eFirstErr' = Underrun
                    /\ \E j \in ShortCalls(eCalls') : j < i
       /\ (eOp' # "Reset" /\ eFirstErr = Nil /\ eFirstErr' # Nil) =>
             \/ FailedCalls(eCalls') \cup ShortCalls(eCalls') # {}
             \/ eFirstErr'.kind = "IntegerOverflow" /\ eCalls' = << >>
       /\ eOp' = "Reset" => eFirstErr' = Nil
       /\ (eOp = "Reset" /\ eOp' # "Reset") =>
             /\ eCalls' # << >> \/ eFirstErr'.kind = "IntegerOverflow"
             /\ (eCalls' # << >> /\ FailedCalls(eCalls') \cup ShortCalls(eCalls') = {})
                    => eFirstErr' = Nil
      ]_vars

\* without failOnError a later write went to the sink and failed with errB,
\* and Error() is still the errA of the earlier write
C2_Witness ==
    /\ ~eFailOnError
    /\ eOp = "WriteSlice"
    /\ Len(eCalls) = 1
    /\ eCalls[1].err = IOErr("errB")
    /\ eFirstErr = IOErr("errA")

\* what a Decoder method returns that returns a zero or empty value
DecZeroReturn(ret) ==
    /\ ret.v = Zero
    /\ ret.data = Slice(<< >>)
    /\ ret.n = Zero

\* C3: on a Decoder created with failOnError=true, once an error is recorded
\* and until Reset is called, every read operation - ReadFull included -
\* performs no read on the source and returns a zero or empty value.
C3_NoReadAfterError ==
    [][(dFailOnError /\ dFirstErr # Nil /\ dOp' # "Reset")
            => (dReads' = << >> /\ DecZeroReturn(dRet'))]_vars

\* C3, ReadFull left out: every other read operation is a no-op after an
\* error.
C3_NoReadButReadFull ==
    [][(dFailOnError /\ dFirstErr # Nil /\ dOp' \notin {"Reset", "ReadFull"})
            => (dReads' = << >> /\ DecZeroReturn(dRet'))]_vars

\* with failOnError and an error recorded, ReadFull took bytes from the source
C3_ReadFullReads ==
    /\ dFailOnError
    /\ dFirstErr = IOErr("errA")
    /\ dOp = "ReadFull"
    /\ Len(dReads) = 1
    /\ dReads[1].n # Zero

-----------------------------------------------------------------------------
\* C5: for every int64 value v, the negative values tagged as a signed 24,
\* 40, 48 or 56 bit integer included, WriteInt(v) on a typed buffer followed
\* by rewinding the cursor and ReadInt() returns exactly v and leaves the
\* cursor where the write left it.
C5_RoundTrip ==
    tPc = "read" => /\ tOut = tIn.v
                    /\ tPos = tIn.end

\* the tag byte that WriteInt stored
WrittenTag == tBytes[tIn.start + 1]

\* C5 without the negative values of the tags TInt24, TInt40, TInt48 and
\* TInt56: every other value is read back as written, and the cursor ends
\* where the write left it for every value.
C5_RoundTripButSigned24To56 ==
    tPc = "read" =>
        /\ tPos = tIn.end
        /\ (IsNeg(tIn.v) /\ WrittenTag \in {TInt(3), TInt(5), TInt(6), TInt(7)})
              \/ tOut = tIn.v

\* -32769, tagged TInt24, was read back as 16744447
C5_Negative24ReadPositive ==
    /\ tPc = "read"
    /\ tIn.v = <<255, 127, 255, 255, 255, 255, 255, 255>>
    /\ WrittenTag = 11
    /\ tOut = <<255, 127, 255, 0, 0, 0, 0, 0>>

\* v is a value of the signed, or of the unsigned, integers of w bytes
InSigned(v, w) == ~SLt(v, MinIntW(w)) /\ ~SLt(MaxIntW(w), v)
InUnsigned(v, w) == ~IsNeg(v) /\ ULe(v, MaxUintW(w))

\* C6: WriteInt(v) writes the tag of the narrowest width W of 8, 16, .. 64
\* bit whose signed or unsigned range contains v: the signed tag of W if v is
\* in the signed range, otherwise the unsigned tag of W; no narrower width
\* can represent v, and every v reaches a tag.
C6_NarrowestTag ==
    tPc = "written" =>
        \E W \in 1..8 :
            /\ InSigned(tIn.v, W) \/ InUnsigned(tIn.v, W)
            /\ \A u \in 1..(W - 1) : ~InSigned(tIn.v, u) /\ ~InUnsigned(tIn.v, u)
            /\ WrittenTag = IF InSigned(tIn.v, W) THEN TInt(W) ELSE TUint(W)
            /\ tPos = tIn.start + 1 + W

\* 1<<23, one above MaxInt24, was written with the tag TUint24 and 3 bytes
C6_Witness ==
    /\ tPc = "written"
    /\ tIn.v = <<0, 0, 128, 0, 0, 0, 0, 0>>
    /\ WrittenTag = 3
    /\ tPos = tIn.start + 4

-----------------------------------------------------------------------------
\* the write of the round trip was op, and it has returned
Wrote(op) == cPc # "start" /\ cIn.op = op

\* C7: Encoder.WriteBlob with prefix width I8, I16, I24 or I32 and a payload
\* longer than 255, 65535, 16777215 or 4294967295 bytes respectively records
\* IntegerOverflow{Val: len(payload), Max: that bound} and makes no write to
\* the sink, neither of the length prefix nor of the payload.
C7_OverflowRejected ==
    (Wrote("WriteBlob") /\ cIn.w \in {I8, I16, I24, I32}
        /\ ULt(MaxUintW(cIn.w), SLen(cIn.v)))
    => /\ eFirstErr = IntegerOverflow(SLen(cIn.v), MaxUintW(cIn.w))
       /\ eCalls = << >>

\* C7 for the payloads that are shorter than 1<<32 bytes when the prefix is
\* I24: these overflows are all rejected without a write.
C7_OverflowRejectedBelow4G ==
    (Wrote("WriteBlob") /\ cIn.w \in {I8, I16, I24, I32}
        /\ ULt(MaxUintW(cIn.w), SLen(cIn.v))
        /\ (cIn.w = I24 => ULt(SLen(cIn.v), Shl1(32))))
    => /\ eFirstErr = IntegerOverflow(SLen(cIn.v), MaxUintW(cIn.w))
       /\ eCalls = << >>

\* WriteBlob of 1<<32 bytes with the prefix I24 recorded no error and wrote
\* the prefix 0 and the payload
C7_I24LengthWraps ==
    /\ Wrote("WriteBlob")
    /\ cIn.w = I24
    /\ SLen(cIn.v) = <<0, 0, 0, 0, 1, 0, 0, 0>>
    /\ eFirstErr = Nil
    /\ Len(eCalls) = 2
    /\ eCalls[1].p = Slice(<<0, 0, 0>>)
    /\ eCalls[2].p = cIn.v

\* the bytes bs in the opposite order
Reverse(bs) == [i \in 1..Len(bs) |-> bs[Len(bs) + 1 - i]]

\* the bytes bs are the length len as the prefix p in the order o
IsPrefix(bs, p, o, len) ==
    IF p = IVar THEN bs = PutUvarint(len)
    ELSE /\ Len(bs) = p
         /\ Pack(IF o = LittleEndian THEN bs ELSE Reverse(bs)) = len

\* C8: for every prefix width p, either byte order o and every payload b
\* whose length fits p, WriteBlob(o, p, b) emits the length of b encoded per
\* p and o followed by exactly len(b) payload bytes, and ReadBlob(o, p) on
\* that output returns a slice equal to b and consumes exactly those bytes;
\* WriteUTF8 and ReadUTF8 do the same for the bytes of a string.
C8_BlobRoundTrip ==
    ((Wrote("WriteBlob") \/ Wrote("WriteUTF8"))
        /\ (cIn.w \in {I64, IVar} \/ ULe(SLen(cIn.v), MaxUintW(cIn.w))))
    => /\ eFirstErr = Nil
       /\ Len(eCalls) = 2
       /\ IsPrefix(Explicit(eCalls[1].p), cIn.w, cIn.o, SLen(cIn.v))
       /\ eCalls[2].p = cIn.v
       /\ eCalls[2].n = SLen(cIn.v)
       /\ cPc = "read" => /\ dRet.data = cIn.v
                          /\ dFirstErr = Nil
                          /\ dSrc = Sentinel
       /\ cPc = "next" => dRet.v = Pack(<<170>>)

\* a payload of 16777215 bytes went through the big endian 24 bit prefix
C8_Witness ==
    /\ Wrote("WriteBlob")
    /\ cPc = "read"
    /\ cIn.o = BigEndian
    /\ cIn.w = I24
    /\ SLen(cIn.v) = <<255, 255, 255, 0, 0, 0, 0, 0>>
    /\ eCalls[1].p = Slice(<<255, 255, 255>>)
    /\ dRet.data = cIn.v
    /\ dSrc = Sentinel

\* C9: for each width W of 8 .. 64 bit, either byte order and every v in the
\* signed W-bit range, negative values included, Decoder.ReadIntW applied to
\* the bytes produced by Encoder.WriteIntW(v) returns v.
C9_SignedRoundTrip ==
    (Wrote("WriteInt") /\ cPc = "read") => dRet.v = cIn.v

\* C9 for the widths of 8, 16, 32 and 64 bit, and for the values of 24 bit
\* that are not negative: these are read back as written.
C9_SignedRoundTripWidths ==
    (Wrote("WriteInt") /\ cPc = "read"
        /\ (cIn.w \in {1, 2, 4, 8} \/ (cIn.w = 3 /\ ~IsNeg(cIn.v))))
    => dRet.v = cIn.v

\* ReadInt24 returned 16777215 for the bytes of WriteInt24(-1)
C9_Int24MinusOne ==
    /\ Wrote("WriteInt")
    /\ cPc = "read"
    /\ cIn.w = 3
    /\ cIn.v = <<255, 255, 255, 255, 255, 255, 255, 255>>
    /\ dRet.v = <<255, 255, 255, 0, 0, 0, 0, 0>>

\* C10: Decoder.ReadInt40, ReadInt48 and ReadInt56 consume exactly 5, 6 and 7
\* bytes from the source, the count WriteInt40/48/56 produce and
\* ReadUint40/48/56 consume, so that the read following them starts at the
\* first byte after the value.
C10_ConsumesWidth ==
    (Wrote("WriteInt") /\ cIn.w \in 5..7)
    => /\ SLen(SinkBytes(eCalls)) = U64(cIn.w)
       /\ cPc = "read" => dSrc = Sentinel
       /\ cPc = "next" => dRet.v = Pack(<<170>>)

\* the count of C10 for ReadUint8 .. ReadUint64 and for the signed reads of
\* 8, 16, 24, 32 and 64 bit: these consume the bytes of the value, and the
\* read that follows returns the byte behind it.
C10_OthersConsumeWidth ==
    (Wrote("WriteUint") \/ (Wrote("WriteInt") /\ cIn.w \notin 5..7))
    => /\ SLen(SinkBytes(eCalls)) = U64(cIn.w)
       /\ cPc = "read" => dSrc = Sentinel
       /\ cPc = "next" => dRet.v = Pack(<<170>>)

\* ReadInt40 made one read of 4 bytes and left the fifth byte of the value
\* in the source
C10_Int40Reads4 ==
    /\ Wrote("WriteInt")
    /\ cPc = "read"
    /\ cIn.w = 5
    /\ Len(dReads) = 1
    /\ dReads[1].n = U64(4)
    /\ SLen(dSrc) = U64(3)

-----------------------------------------------------------------------------
\* C11: for every Encoder write operation that is not short-circuited by a
\* pending error - WriteSlice/WriteBytes, the fixed-width writes, and also
\* WriteByte, WriteUint8, WriteInt8, WriteBool and Write - if the sink reports
\* a written byte count different from the requested count, an error is
\* recorded in the sticky error slot even when the sink returned no error.
C11_ShortCountRecorded ==
    [][(eOp' # "Reset" /\ ShortCalls(eCalls') # {}) => eFirstErr' # Nil]_vars

\* the writes that hand their bytes to the sink themselves, without WriteSlice
ByteWrites == {"WriteByte", "WriteUint8", "WriteInt8", "WriteBool", "Write"}

\* C11 for the writes that end in WriteSlice, the I8 prefix of WriteBlob and
\* WriteUTF8 (a WriteUint8) left out: a short count records an error.
C11_ShortCountRecordedBySlice ==
    [][(eOp' \notin ByteWrites \cup {"Reset"}
          /\ \E i \in ShortCalls(eCalls') :
                ~(eOp' \in {"WriteBlob", "WriteUTF8"} /\ i = 1
                    /\ SLen(eCalls'[i].p) = One))
        => eFirstErr' # Nil]_vars

\* the sink took 0 of the 1 byte of WriteByte and returned no error, and no
\* error is recorded
C11_ShortByteUnnoticed ==
    /\ eOp = "WriteByte"
    /\ Len(eCalls) = 1
    /\ SLen(eCalls[1].p) = One
    /\ eCalls[1].n = Zero
    /\ eCalls[1].err = Nil
    /\ eFirstErr = Nil

-----------------------------------------------------------------------------
\* C12: in every state that raw and self-describing reads, writes and Drain
\* calls on a buffer lead to, the calls that panic on an index out of range
\* and are recovered included, the cursor is within the bytes:
\* 0 <= Pos <= len(Bytes).
C12_PosWithinBytes == tPos >= 0 /\ tPos <= Len(tBytes)

\* C12 for the calls that return, Drain left out: they leave a cursor that is
\* within the bytes.
C12_PosWithinBytesOnReturn ==
    [][(tPos <= Len(tBytes) /\ ~tOut'.panic /\ tIn'.op # "Drain")
        => (tPos' >= 0 /\ tPos' <= Len(tBytes'))]_vars

\* ReadUint16 at the last byte panicked and left Pos behind the bytes
C12_ReadUint16PastEnd ==
    /\ tIn.op = "ReadUint"
    /\ tIn.a = 2
    /\ tOut.panic
    /\ tPos = Len(tBytes) + 1

-----------------------------------------------------------------------------
\* C13: a raw read or write of W bytes that fits within the bytes advances
\* Pos by exactly W, the read returning the W bytes at the old Pos as a
\* little-endian word (so consecutive ReadUint32 calls return the consecutive
\* words of the array); a read or write that would extend past len(Bytes)
\* panics, returns no value and leaves the array as it was.
C13_AdvancesByWidth ==
    [][\A w \in 1..8 :
          /\ (tIn'.op = "ReadUint" /\ tIn'.a = w) =>
                IF tPos + w <= Len(tBytes)
                THEN /\ ~tOut'.panic
                     /\ tOut'.v = Pack(SubSeq(tBytes, tPos + 1, tPos + w))
                     /\ tPos' = tPos + w
                     /\ tBytes' = tBytes
                ELSE /\ tOut'.panic
                     /\ tOut'.v = None
                     /\ tBytes' = tBytes
          /\ (tIn'.op = "WriteUint" /\ tIn'.a = w) =>
                IF tPos + w <= Len(tBytes)
                THEN /\ ~tOut'.panic
                     /\ tPos' = tPos + w
                     /\ Len(tBytes') = Len(tBytes)
                     /\ \A i \in 1..Len(tBytes) :
                           tBytes'[i] = IF i \in (tPos + 1)..(tPos + w)
                                        THEN Stamp[i - tPos] ELSE tBytes[i]
                ELSE /\ tOut'.panic
                     /\ tBytes' = tBytes]_vars

\* the second of two ReadUint32 calls returned the second word of the array,
\* which a write had filled
C13_Witness ==
    /\ tIn.op = "ReadUint"
    /\ tIn.a = 4
    /\ tPos = 8
    /\ ~tOut.panic
    /\ tOut.v = Pack(SubSeq(tBytes, 5, 8))
    /\ tOut.v # Zero

-----------------------------------------------------------------------------
\* the read that matches the tag of the last write, from where it started
MatchingRead ==
    LET f == [Bytes |-> tBytes, Pos |-> tIn.start, v |-> Zero, panic |-> FALSE]
        buf == [nil |-> FALSE, cap |-> U64(TBufLen)]
    IN  CASE tIn.tag \in 1..16 -> T_ReadInt(f)
          [] tIn.tag \in {TFloat32, TFloat64} -> T_ReadFloat(f)
          [] tIn.tag \in 17..20 -> Narrow(T_ReadBlob(Wide(f), buf.cap))
          [] tIn.tag \in 21..24 -> Narrow(T_ReadString(Wide(f), buf, Zero))

\* Drain(t) for the tag t of the value that was written, called with the
\* cursor just behind the tag byte, for a tag of tags: no panic, the cursor
\* where the matching read leaves it, the bytes skipped returned
DrainSkipsValue(tags) ==
    (/\ tIn'.op = "Drain"
     /\ tIn.ok
     /\ tIn.tag \in tags
     /\ tIn'.a = tIn.tag
     /\ tPos = tIn.start + 1)
    => (/\ ~tOut'.panic
        /\ ~MatchingRead.panic
        /\ tPos' = MatchingRead.Pos
        /\ tOut'.v = tPos' - tPos)

\* C14: for every tag that the self-describing writers emit - the 16 integer
\* tags, those of 40, 48 and 56 bit included, the two float tags, the 4 blob
\* and the 4 string tags - Drain(T) just behind the tag byte of a value
\* written with T moves the cursor to where the matching read leaves it and
\* returns the number of bytes skipped, without a panic.
C14_DrainSkips == [][DrainSkipsValue(1..26)]_vars

\* the tags of 40, 48 and 56 bit
Tags40To56 == {TUint(5), TUint(6), TUint(7), TInt(5), TInt(6), TInt(7)}

\* C14 for the other tags
C14_DrainSkipsButTags40To56 == [][DrainSkipsValue((1..26) \ Tags40To56)]_vars

\* Drain(TInt40) just behind the tag of a value written as TInt40 panicked
C14_DrainInt40Panics ==
    /\ tIn.op = "Drain"
    /\ tIn.ok
    /\ tIn.tag = TInt(5)
    /\ tIn.a = TInt(5)
    /\ tOut.panic
    /\ tPos = tIn.start + 1

-----------------------------------------------------------------------------
\* WriteString(s), the cursor set back, and ReadString into a strBuffer that
\* is not nil and holds len(s) bytes
StringRoundTrip ==
    /\ tPc = "readString"
    /\ tIn.op = "WriteString"
    /\ ~tIn.buf.nil
    /\ ULe(SLen(tIn.b), tIn.buf.cap)

\* C15: WriteString(s) on a typed buffer, the cursor set back and
\* ReadString(scratch) with a scratch of at least len(s) bytes returns a
\* string of the length and the bytes of s whose bytes are scratch[0:len(s)],
\* a view into the scratch buffer.
C15_StringIsViewOfScratch ==
    StringRoundTrip =>
        /\ ~tOut.panic
        /\ tOut.v.ret = [Data |-> [of |-> "strBuffer", at |-> Zero],
                         Len |-> SLen(tIn.b)]
        /\ tOut.v.data = tIn.b

\* C15 for the scratch buffer alone: for a string below 1<<32 bytes
\* ReadString returns, has copied the bytes of s into scratch[0:len(s)] and
\* leaves the cursor where WriteString left it.
C15_ScratchHoldsString ==
    (StringRoundTrip /\ ULe(SLen(tIn.b), MaxUintW(4))) =>
        /\ ~tOut.panic
        /\ tOut.v.data = tIn.b
        /\ tPos = tIn.end

\* ReadString after WriteString of a string of 3 bytes returned a string
\* header whose Data word is the integer 3
C15_HeaderReadFromInt ==
    /\ StringRoundTrip
    /\ tIn.b = Slice(<<1, 0, 255>>)
    /\ ~tOut.panic
    /\ tOut.v.ret.Data = [of |-> "int", at |-> U64(3)]

-----------------------------------------------------------------------------
\* the class of the length n: 8 bit up to 255, 16 bit up to 65535, 24 bit up
\* to 16777215, 32 bit otherwise, as the number of prefix bytes
ClassOf(n) ==
    IF ULe(n, U64(255)) THEN 1 ELSE IF ULe(n, U64(65535)) THEN 2
    ELSE IF ULe(n, U64(16777215)) THEN 3 ELSE 4

\* the tag of class c, the length of b in c little-endian bytes and all of b
TaggedBlob(tag, c, b) == Concat(Slice(<<tag>> \o SubSeq(SLen(b), 1, c)), b)

\* WriteBlob(b) or WriteString(b) wrote the tag of the class of len(b), the
\* length and the full payload from Pos 0
WroteClass ==
    LET written(c) ==
            /\ ~tOut.panic
            /\ tIn.end = Add(U64(1 + c), SLen(tIn.b))
            /\ SliceTo(tBytes, tIn.end)
                  = TaggedBlob(IF tIn.op = "WriteBlob" THEN TBlob(c) ELSE TString(c),
                               c, tIn.b)
    IN  written(ClassOf(SLen(tIn.b)))

\* WriteBlob(b), the cursor set back, and ReadBlob into a dst of at least
\* len(b) bytes
BlobRoundTrip ==
    /\ tPc = "readBlob"
    /\ tIn.op = "WriteBlob"
    /\ ULe(SLen(tIn.b), tIn.buf.cap)

\* C16: WriteBlob(b) and WriteString write the tag of class 8 for a length up
\* to 255, 16 up to 65535, 24 up to 16777215 and 32 otherwise, then the
\* length in that many little-endian bytes and the full payload; with the
\* cursor set back, ReadBlob(dst) with len(dst) >= len(b) returns len(b),
\* fills dst[0:len(b)] with b and leaves the cursor where the write left it.
C16_BlobClassAndRoundTrip ==
    /\ tPc = "written" => WroteClass
    /\ BlobRoundTrip =>
          /\ ~tOut.panic
          /\ tOut.v.ret = SLen(tIn.b)
          /\ tOut.v.data = tIn.b
          /\ tPos = tIn.end

\* C16 for payloads below 1<<32 bytes
C16_BlobClassAndRoundTripBelow4G ==
    ULe(SLen(tIn.b), MaxUintW(4)) =>
        /\ tPc = "written" => WroteClass
        /\ BlobRoundTrip =>
              /\ ~tOut.panic
              /\ tOut.v.ret = SLen(tIn.b)
              /\ tOut.v.data = tIn.b
              /\ tPos = tIn.end

\* WriteBlob of 1<<32 bytes and ReadBlob into 1<<32 bytes returned 1<<32 - 1
C16_Blob4GTruncated ==
    /\ BlobRoundTrip
    /\ SLen(tIn.b) = Add(MaxUintW(4), One)
    /\ ~tOut.panic
    /\ tOut.v.ret = MaxUintW(4)

-----------------------------------------------------------------------------
\* the tags that a self-describing read accepts: ReadInt and ReadFloat the
\* integer and float tags, ReadString the string tags, ReadBlob the blob tags
Accepts(op) ==
    CASE op \in {"ReadInt", "ReadFloat"} -> (1..16) \cup {TFloat32, TFloat64}
      [] op = "ReadString" -> 21..24
      [] op = "ReadBlob" -> 17..20

\* C17: ReadInt, ReadFloat, ReadString and ReadBlob on a typed buffer whose
\* next tag byte is none of the tags the operation accepts (0, a value above
\* 28, a tag of another class) panic and return no value; the tag is never
\* decoded as some other type.
C17_UnacceptedTagPanics ==
    [][\A op \in {"ReadInt", "ReadFloat", "ReadString", "ReadBlob"} :
          (/\ tIn'.op = op
           /\ tPos < Len(tBytes)
           /\ tBytes[tPos + 1] \notin Accepts(op))
          => (/\ tOut'.panic
              /\ tOut'.v = None
              /\ tBytes' = tBytes)]_vars

\* ReadInt at the tag of a blob panicked
C17_Witness ==
    /\ tIn.op = "ReadInt"
    /\ tIn.tag \in 17..20
    /\ tIn.ok
    /\ tPos = tIn.start + 1
    /\ tOut.panic

-----------------------------------------------------------------------------
\* C18: for every int64 v, 0, 1, -1, the maximum and the minimum included,
\* Decoder.ReadVarint on the bytes of Encoder.WriteVarint(v) returns v, and
\* for every uint64 u Decoder.ReadUvarint on the bytes of
\* Encoder.WriteUvarint(u) returns u; exactly the written bytes are consumed.
C18_VarintRoundTrip ==
    (Wrote("WriteVarint") \/ Wrote("WriteUvarint"))
    => /\ eFirstErr = Nil
       /\ cPc = "read" => /\ dRet.v = cIn.v
                          /\ dFirstErr = Nil
                          /\ dSrc = Sentinel
       /\ cPc = "next" => dRet.v = Pack(<<170>>)

\* the minimum of int64 came back from ReadVarint
C18_Witness ==
    /\ Wrote("WriteVarint")
    /\ cPc = "read"
    /\ cIn.v = MinIntW(8)
    /\ dRet.v = MinIntW(8)
    /\ dSrc = Sentinel

-----------------------------------------------------------------------------
\* zigzag(n) = (n << 1) ^ (n >> 63), the shift to the right an arithmetic one
ZigZag(n) == [i \in 1..8 |-> IF IsNeg(n) THEN 255 - Add(n, n)[i] ELSE Add(n, n)[i]]

\* the number whose base-128 digits are the low 7 bits of bs[i], bs[i+1], ...,
\* least significant first, bs[i] shifted by s
RECURSIVE Base128(_, _, _)
Base128(bs, i, s) ==
    IF i > Len(bs) THEN Zero
    ELSE Add(ShlByte(bs[i] % 128, s), Base128(bs, i + 1, s + 7))

\* C19: Encoder.WriteVarint(n) writes the base-128 little-endian encoding of
\* zigzag(n): 7 payload bits in every byte, the high bit set in every byte
\* but the last and clear in the last, 1 to 10 bytes (1 byte for 0), and the
\* bytes fit the encoder's scratch buffer of 10 bytes, which holds them.
C19_VarintIsBase128OfZigZag ==
    Wrote("WriteVarint") =>
        LET encoded(bs) ==
                /\ Len(bs) \in 1..10
                /\ cIn.v = Zero => bs = <<0>>
                /\ \A i \in 1..Len(bs) : (bs[i] >= 128) = (i < Len(bs))
                /\ Base128(bs, 1, 0) = ZigZag(cIn.v)
                /\ Len(bs) > 1 => bs[Len(bs)] # 0
                /\ Len(eBuf10) = 10
                /\ SubSeq(eBuf10, 1, Len(bs)) = bs
        IN  /\ eFirstErr = Nil
            /\ Len(eCalls) = 1
            /\ encoded(Explicit(eCalls[1].p))

\* WriteVarint of the minimum of int64 wrote 10 bytes, the last one 1
C19_Witness ==
    /\ Wrote("WriteVarint")
    /\ cIn.v = MinIntW(8)
    /\ Explicit(eCalls[1].p) = <<255, 255, 255, 255, 255, 255, 255, 255, 255, 1>>

-----------------------------------------------------------------------------
\* the values of ExampleDataOutput
ExampleValues == <<Slice(Hello), U64(1234), Slice(HelloWorld), TRUE>>

\* C20: the raw bytes "hello", the int32 1234, the I8-prefixed UTF-8 string
\* "hello world" and the boolean true, written in this order through a
\* little-endian DataOutput, give a stream from which a little-endian
\* DataInput that reads 5 raw bytes, an int32, an I8-prefixed UTF-8 string and
\* a bool obtains exactly these four values, with no error recorded on either
\* side.  The same holds for the other values and the other order.
C20_EndToEnd ==
    /\ eFirstErr = Nil
    /\ dFirstErr = Nil
    /\ cPc = "done" => /\ cIn.out = cIn.vals
                       /\ dSrc = Slice(<< >>)
    /\ (cPc \in {"r0", "r1"} /\ cIn.o = LittleEndian /\ cIn.vals = ExampleValues)
          => cIn.stream = Slice(Hello \o <<210, 4, 0, 0>> \o <<11>> \o HelloWorld \o <<1>>)

\* the four values of the example came back from the little-endian DataInput
C20_Witness ==
    /\ cPc = "done"
    /\ cIn.o = LittleEndian
    /\ cIn.vals = ExampleValues
    /\ cIn.out = ExampleValues
    /\ dFirstErr = Nil

-----------------------------------------------------------------------------
\* ReadBlob decoded a length above MaxInt: no read of the source failed
LengthAboveMaxInt ==
    /\ dOp = "ReadBlob"
    /\ cIn.failAt = 0
    /\ ULt(MaxIntW(8), cIn.len)

\* C21: Decoder.ReadBlob, in every storage class, when the length it decoded
\* is above MaxInt, records the length error in firstErr, returns nil, reads
\* no byte of the payload from the source and does not panic.
C21_LengthAboveMaxIntIsError ==
    (cPc = "read" /\ LengthAboveMaxInt)
        => /\ ~dRet.panic
           /\ dFirstErr # Nil
           /\ dFirstErr = LengthError(cIn.len, MaxIntW(8))
           /\ dRet.data = Slice(<< >>)
           /\ dSrc = Slice(LenPayload)

\* a varint prefix announced 1 << 63 bytes; after Reset the first byte of the
\* payload is still the next one of the source
C21_Witness ==
    /\ cPc = "next"
    /\ cIn.p = IVar
    /\ cIn.failAt = 0
    /\ cIn.len = MinIntW(8)
    /\ dRet.v = U64(7)

-----------------------------------------------------------------------------
\* WriteFloat returned, and its value is not within 1e-9 of an integer
WroteFraction ==
    /\ tPc = "written"
    /\ ~tOut.panic
    /\ ~LooksLikeInt(tIn.v)

\* the magnitude of v is below 16777215
BelowFloat32Limit(v) == ULt(v.m, ShlN(U64(Float32Limit), v.k))

\* C22: WriteFloat(v), for a v that is not within 1e-9 of an integer, writes
\* the tag TFloat32 only if v * 1000 is within 1e-9 of an integer and the
\* magnitude of v is below 16777215, and the tag TFloat64 in every other case.
C22_Float32OnlyBelowLimit ==
    WroteFraction
        => IF LooksLikeInt(FMul1000(tIn.v)) /\ BelowFloat32Limit(tIn.v)
           THEN tIn.tag = TFloat32
           ELSE tIn.tag = TFloat64

\* C22, as the code has it: the tag is TFloat32 exactly when v * 1000 is
\* within 1e-9 of an integer, whatever the magnitude of v is
C22_Float32IffThousandths ==
    WroteFraction
        => IF LooksLikeInt(FMul1000(tIn.v))
           THEN tIn.tag = TFloat32
           ELSE tIn.tag = TFloat64

\* the typed WriteFloat(20000000.5) stored the float32 20000000
C22_Float32Above16777215 ==
    /\ tPc = "done"
    /\ tIn.op = "T.WriteFloat"
    /\ tIn.v = Float(FALSE, U64(320000008), 4)
    /\ tIn.tag = TFloat32
    /\ tOut.v = Pack(<<128, 150, 152, 75>>)

-----------------------------------------------------------------------------
\* the facade method returned after one call of the method of its name
DelegatedOnce ==
    /\ cIn.delegated = 1
    /\ cIn.depth = 0
    /\ cIn.side = "in" => dOp = cIn.method
    /\ cIn.side = "out" => eOp = cIn.method

\* C23: every method of the DataInput and DataOutput facade returns after
\* delegating exactly once to the Decoder or Encoder method of the same name;
\* DataInput.ReadInt40 terminates as well.
C23_FacadeDelegatesOnce ==
    /\ cPc # "fatal"
    /\ cPc = "returned" => DelegatedOnce

\* C23, without ReadInt40: every other method returns after one call of the
\* method of its name, and only ReadInt40 ends the program
C23_OthersDelegateOnce ==
    /\ cPc = "fatal" => cIn.method = "ReadInt40"
    /\ cPc = "returned" => DelegatedOnce /\ cIn.method # "ReadInt40"

\* ReadInt40 called itself until the stack was full: the Decoder was not
\* called
C23_ReadInt40StackOverflow ==
    /\ cPc = "fatal"
    /\ cIn.method = "ReadInt40"
    /\ cIn.delegated = 0
    /\ dOp = "NewDecoder"

-----------------------------------------------------------------------------
\* C24: after any sequence of Read calls on a HashReader, Count() is the
\* number of bytes those Reads returned since creation or since the last
\* Reset, and Reset sets it to 0.
C24_CountIsBytesReturned ==
    /\ hCount = hReturned
    /\ hRet.op = "Count" => hRet.n = hReturned
    /\ hRet.op = "Reset" => hCount = 0

\* C24, as the code has it: Read hashes what it returns and leaves count
\* alone, so that Count() is 0 at all times
C24_CountIsZero ==
    /\ hCount = 0
    /\ hRet.op = "Count" => hRet.n = 0
    /\ Len(hHasher) = hReturned

\* Count() returned 0 after Reads that returned four bytes
C24_CountZeroAfterRead ==
    /\ hRet.op = "Count"
    /\ hRet.n = 0
    /\ hReturned = 4
    /\ hHasher = <<1, 2, 3, 4>>

-----------------------------------------------------------------------------
\* Read was called with a destination that is not empty; pos, buf are as
\* they were, since Read leaves them alone
ReadNonEmpty == bRet.op = "Read" /\ bRet.a1 > 0

\* the smaller of a and b
Min(a, b) == IF a < b THEN a ELSE b

\* C25: ByteSeeker.Read with a non-empty destination p returns (0, io.EOF)
\* exactly when pos >= len(buf); otherwise it copies min(len(p), len(buf)-pos)
\* bytes, at least one, from pos on and returns that count with a nil error.
C25_EOFAtEnd ==
    ReadNonEmpty
        => IF bPos >= Len(bBuf)
           THEN bRet.n = 0 /\ bRet.err = EOF
           ELSE /\ bRet.n = Min(bRet.a1, Len(bBuf) - bPos)
                /\ bRet.n >= 1
                /\ bRet.err = Nil
                /\ SubSeq(bRet.data, 1, bRet.n) = SubSeq(bBuf, bPos + 1, bPos + bRet.n)

\* C25, as the code has it: (0, io.EOF) exactly at the last byte, and at or
\* behind the end 0 bytes with a nil error
C25_EOFAtLastByte ==
    ReadNonEmpty
        => IF bPos = Len(bBuf) - 1
           THEN bRet.n = 0 /\ bRet.err = EOF
           ELSE /\ ~bRet.panic
                /\ bRet.n = Min(bRet.a1, Len(bBuf) - bPos)
                /\ bRet.err = Nil
                /\ SubSeq(bRet.data, 1, bRet.n) = SubSeq(bBuf, bPos + 1, bPos + bRet.n)

\* one byte is left and Read reports io.EOF
C25_EOFWithAByteLeft ==
    /\ ReadNonEmpty
    /\ bBuf = <<8, 7>>
    /\ bPos = 1
    /\ bRet.n = 0
    /\ bRet.err = EOF

-----------------------------------------------------------------------------
\* C30: ByteSeeker.Read never changes the position, so that Reads with no
\* Seek or Write between them return the same bytes again; Write moves pos
\* by len(p), with the buffer grown so that pos <= len(buf); Seek sets pos to
\* the target, or to 0 with io.EOF for a negative target; and
\* 0 <= pos <= len(buf) holds after every operation.
C30_OnlyWriteAndSeekMove ==
    [][/\ bRet'.op = "Read" => bPos' = bPos /\ bBuf' = bBuf
       /\ (bRet'.op = "Read" /\ bRet.op = "Read" /\ bRet'.a1 = bRet.a1) => bRet' = bRet
       /\ bRet'.op = "Write" => bPos' = bPos + bRet'.a1 /\ bRet'.n = bRet'.a1
       /\ bRet'.op = "Seek" =>
             IF SeekTarget(BSFrame, bRet'.a1, bRet'.a2) < 0
             THEN bPos' = 0 /\ bRet'.err = EOF
             ELSE bPos' = SeekTarget(BSFrame, bRet'.a1, bRet'.a2) /\ bRet'.err = Nil
       /\ ~bRet'.panic
       /\ 0 <= bPos' /\ bPos' <= Len(bBuf')]_vars

\* two bytes were read twice from the same position
C30_Witness ==
    /\ bRet.op = "Read"
    /\ bRet.n = 2
    /\ bRet.data = <<8, 7, 0>>
    /\ bPos = 1
    /\ bBuf = <<9, 8, 7>>

-----------------------------------------------------------------------------
\* the write made last was not short-circuited by a pending error
NotShortCircuited == ~(eFailOnError /\ cIn.before # Nil)

\* the write made an error pending in its first sink call, which
\* short-circuits what it does after it
FirstCallLeftError == Len(eCalls) = 1 /\ eFailOnError /\ eFirstErr # Nil

\* a fixed-width write of W bytes called the sink once, with all W bytes
OneCallOfWidth ==
    cIn.op \in {"WriteUint", "WriteInt", "WriteFloat"}
        => Len(eCalls) = 1 /\ SLen(eCalls[1].p) = U64(cIn.w)

\* WriteUvarint and WriteVarint called the sink once
OneCallOfVarint ==
    cIn.op \in {"WriteUvarint", "WriteVarint"} => Len(eCalls) = 1

\* the length of the payload fits the prefix of WriteBlob, WriteUTF8
PassesLengthCheck ==
    cIn.w \in {I64, IVar} \/ ULe(cIn.len, MaxUintW(cIn.w))

\* WriteBlob and WriteUTF8 called the sink for the prefix and then once for
\* the payload
PrefixThenPayload ==
    (cIn.op \in {"WriteBlob", "WriteUTF8"} /\ PassesLengthCheck)
        => \/ Len(eCalls) = 2 /\ SLen(eCalls[2].p) = cIn.len
           \/ FirstCallLeftError

\* C26: every Encoder write that is not short-circuited by a pending error
\* calls the sink's Write exactly once for its value bytes, after the calls
\* for the length prefix in WriteBlob and WriteUTF8: a fixed-width write
\* passes all W bytes in one call, and WriteFloat32/64, WriteComplex64/128,
\* WriteUvarint and WriteVarint make exactly one sink call each.
C26_OneSinkCall ==
    (cPc = "written" /\ NotShortCircuited)
        => /\ OneCallOfWidth
           /\ OneCallOfVarint
           /\ PrefixThenPayload
           /\ cIn.op = "WriteComplex" => Len(eCalls) = 1

\* C26, amended: the same, but WriteComplex64/128 call the sink twice, once
\* for each part with half of the bytes, unless the first call left an error
\* that short-circuits the second.
C26_OneSinkCallPerPart ==
    (cPc = "written" /\ NotShortCircuited)
        => /\ OneCallOfWidth
           /\ OneCallOfVarint
           /\ PrefixThenPayload
           /\ cIn.op = "WriteComplex"
                 => \/ /\ Len(eCalls) = 2
                       /\ SLen(eCalls[1].p) = U64(cIn.w \div 2)
                       /\ SLen(eCalls[2].p) = U64(cIn.w \div 2)
                    \/ FirstCallLeftError

\* WriteComplex64 called the sink twice, with four bytes each
C26_ComplexCallsTwice ==
    /\ cPc = "written"
    /\ cIn.op = "WriteComplex"
    /\ cIn.w = 8
    /\ cIn.before = Nil
    /\ eFirstErr = Nil
    /\ Len(eCalls) = 2
    /\ eCalls[2].p = Slice(<<27, 28, 243, 244>>)

-----------------------------------------------------------------------------
\* the number of sink calls the write made last makes when nothing
\* short-circuits it: none by a blob that fails the length check
SinkCallsOf ==
    CASE cIn.op \in {"WriteBlob", "WriteUTF8"} -> IF PassesLengthCheck THEN 2 ELSE 0
      [] cIn.op = "WriteComplex" -> 2
      [] OTHER -> 1

\* the call for the length prefix returned an error or, where the count is
\* looked at, a short count
PrefixWriteFailed ==
    \/ eCalls[1].err # Nil
    \/ cIn.w # I8 /\ eCalls[1].n # SLen(eCalls[1].p)

-----------------------------------------------------------------------------
\* C27: an Encoder is not safe for concurrent use.  With one Encoder for each
\* caller of WriteUint16 the sink is handed the encoding of that caller's
\* value in every interleaving; on one Encoder for both, every byte handed to
\* the sink is a byte of one of the two values at its place, since both calls
\* fill and write the same buf10, and it need not be the caller's.
C27_OneEncoderPerCaller ==
    \A i \in Callers :
        gPc[i] = "done"
            => /\ ~gIn.shared => gSent[i] = GoEncoding(i)
               /\ \A j \in 1..2 : gSent[i][j] \in {GoEncoding(1)[j], GoEncoding(2)[j]}

\* on one Encoder, the first caller passed 0x0102 and the sink was handed
\* bytes of 0x0304 in its call of Write
C27_Witness ==
    /\ gIn.shared
    /\ gIn.o = LittleEndian
    /\ gIn.v = <<U64(258), U64(772)>>
    /\ gPc = [i \in Callers |-> "done"]
    /\ gSent[1] = <<4, 3>>
    /\ gSent[2] = <<4, 3>>

-----------------------------------------------------------------------------
\* the tag byte at the position the read started at
TagAtStart == tBytes[tIn.start + 1]

\* the bytes of the value the read made last went over: the width of a fixed
\* type, the prefix and the payload of a blob
SizeRead ==
    IF tIn.rtyp \in {TBlob(c) : c \in 1..4}
    THEN tIn.rtyp - TBlob(0) + Small(tOut.v)
    ELSE TagWidth(tIn.rtyp)

\* a typed WriteUintN was followed by the typed ReadUintN from the same
\* position, which returned
UintRoundTrip ==
    /\ tPc = "read"
    /\ tIn.wtyp = tIn.rtyp
    /\ tIn.rtyp \in {TUint(w) : w \in {1, 2, 3, 4, 8}}
    /\ ~tOut.panic

\* every byte of the value written is the tag byte
AllBytesAreTheTag ==
    \A i \in 1..TagWidth(tIn.wtyp) : tIn.v[i] = tIn.wtyp

\* with debug on a tag different from the expected one panics and a matching
\* tag advances the cursor by 1 + the value's size; with debug off the tag
\* byte is not consumed: the read starts at the tag byte
TagOnlyUnderDebug ==
    tPc = "read"
        => /\ (tIn.debug /\ TagAtStart # tIn.rtyp) => tOut.panic
           /\ (tIn.debug /\ ~tOut.panic) => tPos = tIn.start + 1 + SizeRead
           /\ (~tIn.debug /\ ~tOut.panic)
                 => /\ tPos = tIn.start + SizeRead
                    /\ tIn.rtyp \in TFReadTypes
                          => Trunc(tOut.v, TagWidth(tIn.rtyp))
                                = Pack(SubSeq(tBytes, tIn.start + 1,
                                              tIn.start + TagWidth(tIn.rtyp)))
           /\ (tIn.debug /\ tIn.wtyp = tIn.rtyp /\ tIn.rtyp \in 1..8)
                 => ~tOut.panic /\ tOut.v = tIn.v

\* C29: the fixed-type reads of the typed buffer consume and check the tag
\* byte only when debug is on, so a value written by the typed WriteUintN is
\* returned by the typed ReadUintN only when debug is on.
C29_RoundTripOnlyUnderDebug ==
    /\ TagOnlyUnderDebug
    /\ (UintRoundTrip /\ tOut.v = tIn.v) => tIn.debug

\* C29, amended: the same, but with debug off the typed ReadUintN also
\* returns the value written when every byte of it is the tag byte.
C29_RoundTripUnderDebugOrTagBytes ==
    /\ TagOnlyUnderDebug
    /\ (UintRoundTrip /\ tOut.v = tIn.v) => (tIn.debug \/ AllBytesAreTheTag)
    /\ (UintRoundTrip /\ (tIn.debug \/ AllBytesAreTheTag)) => tOut.v = tIn.v

\* with debug off WriteUint8(1) wrote the tag 1 and the byte 1, and ReadUint8
\* from the same position returned 1 and left the cursor on the value byte
C29_TagReadAsValue ==
    /\ UintRoundTrip
    /\ ~tIn.debug
    /\ tIn.wtyp = TUint(1)
    /\ tIn.v = One
    /\ tOut.v = One
    /\ tIn.start = 0
    /\ tPos = 1
    /\ tIn.end = 2

=============================================================================
